---- MODULE Spec2Model ----
(***************************************************************************)
(* Model of the rate-limited client (pkg/net.py, Invoker.invoke) and of    *)
(* the concurrent batch run of                                             *)
(* supporter/fix_malformed_addresses/manage_supporters.py (main, process,  *)
(* get_metrics, get_search_payload).                                       *)
(*                                                                         *)
(* Spec          : a run of manage_supporters.py with the `check` command. *)
(* WideSpec      : the same run after get_metrics, several rows a batch.   *)
(* DeleteSpec    : the same run with the `delete` command.                 *)
(* PartitionSpec : the split of the identifiers into batches.              *)
(* InvokeSpec    : one call of Invoker.invoke against a backend that       *)
(*                 answers each attempt with an arbitrary response.        *)
(* EndpointSpec  : Endpoint.__init__ followed by Invoker.invoke.           *)
(* ListSpec      : activity/activity_form_list.py, listActivities.         *)
(* ScanSpec      : the offset loops of supporter/stc_custom_fields.py,     *)
(*                 supporter/stc_photo_release.py, segments/see_members.py.*)
(* CursorSpec    : email_blast/get_single_blast.py, scanEmail.             *)
(* StatsSpec     : email_blast/get_single_blast.py, oneRecipient.          *)
(* UsageSpec     : activity/generic/activity_form_usage.py,                *)
(*                 getLastActionDate.                                      *)
(* ReadSpec      : listActivityTypes, readTransaction, readActivity.       *)
(* SearchSpec    : get_search_payload and the row extraction, called twice *)
(*                 on one batch.                                           *)
(* FaultySpec    : the `check` run against a service that leaves fields out*)
(*                 of supporter records.                                   *)
(***************************************************************************)
EXTENDS Integers, Sequences, FiniteSets, TLC

\* ------------------------------------------------------------------------
\* Bounds of the model
\* ------------------------------------------------------------------------
\* longest ID file (rows) that Init draws
MaxRows == 2
\* largest maxBatchSize the metrics endpoint reports
MaxBatchSize == 2
\* most attempts one invoke() is followed for
MaxRequests == 3
\* longest identifier list and largest batch size the partition is tried on
MaxIds == 5
MaxChunk == 3

\* longest ID file and the batch size of the runs with several rows a batch
MaxWideRows == 4
WideBatchSize == 2

\* most records the service holds for a paginated query
MaxTotal == 45
\* most pages a paginating loop is followed for
MaxPages == 48
\* most requests scanEmail is followed for, most recipients in one answer
MaxCursorPages == 3
MaxRecipients == 2
\* most records in the payload of one answer to readTransaction, readActivity
MaxRecords == 2
\* most actions of the activity form getLastActionDate reads, and the
\* number of different activity dates
MaxActions == 4
MaxDate == 3
\* most recipients handed to oneRecipient in a row
MaxTabulated == 2

\* ------------------------------------------------------------------------
\* Program constants
\* ------------------------------------------------------------------------
\* for i in range(1, 6): five worker threads
NumWorkers == 5
\* len(row[0]) == 36
IdLength == 36
\* time.sleep(30)
NapSeconds == 30

Workers == 1..NumWorkers

\* first-column values an ID file may hold: two supporter ids (UUIDs, 36
\* characters) and one value that is not a supporter id
IdA == "aaaaaaaa-aaaa-aaaa-aaaa-aaaaaaaaaaaa"
IdB == "bbbbbbbb-bbbb-bbbb-bbbb-bbbbbbbbbbbb"
Junk == "supporterId"
FirstColumns == {IdA, IdB, Junk}

\* the supporters the service knows
KnownSupporters == {IdA}

HeaderRow == <<"SupporterID", "Result">>

\* HTTP statuses the service answers a search or metrics request with
ServiceStatuses == {200, 429, 500}

VARIABLES
    \* ---- manage_supporters.py ----
    idFile,          \* first column of each row of args.id_file
    mainpc,          \* position of the main thread
    maxBatchSize,    \* metrics["maxBatchSize"]
    ids,             \* main: ids
    batches,         \* main: batches
    q,               \* queue.Queue: references (indexes) into batches, FIFO
    unfinished_tasks,\* queue.Queue.unfinished_tasks, what q.join() waits on
    sink,            \* rows handed to the csv writer w, in write order
    closed,          \* the output file has been closed
    nextThread,      \* main: i of the thread-start loop
    pc,              \* position of each worker thread (process), "idle"
                     \* before t.start()
    batch,           \* process: batch while in use, from q.get() to the end
                     \* of writerows (index into batches, 0 = none)
    rows,            \* process: rows not yet written by w.writerows(rows)
    status,          \* r.status_code of the answer to each batch's search
                     \* (0 = not answered yet)
    gets,            \* history: how often each batch left the queue
    calls,           \* history: how often payload_getter ran on each batch
    \* ---- pkg/net.py ----
    method,          \* endpoint.method
    ipc,             \* position inside Invoker.invoke
    complete,        \* invoke: complete
    needNap,         \* invoke: needNap
    response,        \* invoke: response (the most recent one)
    responses,       \* history: every response received, in order
    requests,        \* history: the HTTP verb of every request sent, in order
    naps,            \* history: the durations slept, in order
    result,          \* value returned by invoke
    error,           \* exception raised by Endpoint(...) or by invoke
    kwargs,          \* keyword arguments given to Endpoint(**kwargs)
    epc,             \* outcome of Endpoint.__init__
    ep,              \* the Endpoint object
    request,         \* invoke: request, the caller's request envelope
    sent,            \* history: url, session headers and envelope of every
                     \* request invoke sent, in order
    \* ---- manage_supporters.py, outside the threads ----
    metricsStatus,   \* r.status_code in get_metrics (0 = not called yet)
    deleteStatus,    \* the status the service answers a delete request with
    \* ---- the paginating scripts ----
    script,          \* the loop that runs: "listActivities", "scanForms",
                     \* "photo_release", "see_members" or "scanEmail"
    ppc,             \* position of the script
    total,           \* number of records the service holds for the query
    pageSize,        \* the count of the first request (20 or args.count)
    offset,          \* offset of the next request
    count,           \* count of the next request / count last returned
    todo,            \* listActivities: results of the page still to handle
    written,         \* listActivities: rows written after the header
    typeIdx,         \* photo_release: index of payloadType in payloadTypes
    cursor,          \* scanEmail: rPayload['cursor'] (None while not set)
    pages,           \* history: the requests of the loop and their answers
    \* ---- the one-request scripts ----
    reader,          \* the function that runs: "listActivityTypes",
                     \* "readTransaction" or "readActivity"
    rpc,             \* position of the function
    summary,         \* the summary argument
    answer,          \* r, the answer to the request
    log,             \* the lines logged, in order
    \* ---- the service ----
    broken,          \* the identifiers whose record the service returns
                     \* without one of its fields
    \* ---- the search operation, called on its own ----
    searchIds,       \* the batch the operation is called on
    searchStatus,    \* the status the service answers this search with
    searchSent,      \* history: the request body of every call, in order
    searchOutcomes,  \* history: what every call came to, in order
    \* ---- activity_form_usage.py ----
    dates,           \* the service: activityDate of each action of the form,
                     \* in the order the service returns them
    lastActionDate,  \* getLastActionDate: lastActionDate
    \* ---- get_single_blast.py, the tabulation ----
    data,            \* the stats object that main allocates with newStats()
    tpc,             \* outcome of the calls of oneRecipient so far
    processed        \* history: the recipients handed to oneRecipient

batchVars == <<idFile, mainpc, maxBatchSize, ids, batches, q, unfinished_tasks,
               sink, closed, nextThread, pc, batch, rows, status, gets, calls>>
endpointVars == <<kwargs, epc, ep>>
envelopeVars == <<request, sent>>
serviceVars == <<metricsStatus, deleteStatus>>
readVars == <<reader, rpc, summary, answer, log>>
faultVars == <<broken>>
searchVars == <<searchIds, searchStatus, searchSent, searchOutcomes>>
usageVars == <<dates, lastActionDate>>
statsVars == <<data, tpc, processed>>
toolVars == <<readVars, faultVars, searchVars, usageVars, statsVars>>
nonReadVars == <<faultVars, searchVars, usageVars, statsVars>>
nonSearchVars == <<readVars, faultVars, usageVars, statsVars>>
nonUsageVars == <<readVars, faultVars, searchVars, statsVars>>
nonStatsVars == <<readVars, faultVars, searchVars, usageVars>>
pageOnlyVars == <<script, ppc, total, pageSize, offset, count, todo, written,
                  typeIdx, cursor, pages>>
pageVars == <<pageOnlyVars, toolVars>>
invokeVars == <<method, ipc, complete, needNap, response, responses, requests,
                naps, result, error, endpointVars, envelopeVars, serviceVars,
                pageVars>>
vars == <<batchVars, invokeVars>>
coreVars == <<batchVars, method, ipc, complete, needNap, response,
              responses, requests, naps, result, error, endpointVars,
              envelopeVars, serviceVars>>
nonPageVars == <<coreVars, toolVars>>

\* ------------------------------------------------------------------------
\* Helpers
\* ------------------------------------------------------------------------
Min(a, b) == IF a < b THEN a ELSE b

\* all sequences over S of length at most n
SeqsUpTo(S, n) == UNION {[1..k -> S] : k \in 0..n}

\* python: range(start, stop, step), step > 0
RECURSIVE Range(_, _, _)
Range(start, stop, step) ==
    IF start >= stop THEN <<>>
    ELSE <<start>> \o Range(start + step, stop, step)

\* python: s[lo:hi] with 0 <= lo <= hi (zero-based, hi exclusive, clipped)
Slice(s, lo, hi) == SubSeq(s, lo + 1, Min(hi, Len(s)))

\* concatenation of a sequence of sequences
RECURSIVE Flatten(_)
Flatten(ss) == IF ss = <<>> THEN <<>> ELSE Head(ss) \o Flatten(Tail(ss))

\* the set of elements of a sequence
Range1(s) == {s[k] : k \in 1..Len(s)}

\* number of positions of s that hold x
Count(s, x) == Cardinality({k \in 1..Len(s) : s[k] = x})

CeilDiv(n, b) == (n + b - 1) \div b

\* ------------------------------------------------------------------------
\* manage_supporters.py: pure parts
\* ------------------------------------------------------------------------
\* ReadIds that keeps only the first occurrence of an identifier
RECURSIVE ReadIds_Dedups(_)
ReadIds_Dedups(file) ==
    IF file = <<>> THEN <<>>
    ELSE LET front == SubSeq(file, 1, Len(file) - 1)
             last == file[Len(file)]
         IN  ReadIds_Dedups(front)
             \o (IF Len(last) = IdLength /\ Count(front, last) = 0
                 THEN <<last>> ELSE <<>>)

\* ReadIds that keeps every first column of at most 36 characters
RECURSIVE ReadIds_AtMost36(_)
ReadIds_AtMost36(file) ==
    IF file = <<>> THEN <<>>
    ELSE (IF Len(Head(file)) <= IdLength THEN <<Head(file)>> ELSE <<>>)
         \o ReadIds_AtMost36(Tail(file))

\* main: ids = [ row[0] for row in r if len(row[0]) == 36 ]
RECURSIVE ReadIds(_)
ReadIds(file) ==
    IF file = <<>> THEN <<>>
    ELSE (IF Len(Head(file)) = IdLength THEN <<Head(file)>> ELSE <<>>)
         \o ReadIds(Tail(file))

\* Partition with the offsets stopping one batch early when the last batch
\* is not full
Partition_DropsTail(list, size) ==
    LET offsets == Range(0, Len(list) - size + 1, size)
    IN  [k \in 1..Len(offsets) |-> Slice(list, offsets[k], offsets[k] + size)]

\* main: batches = [ ids[offset:offset+maxBatchSize]
\*                   for offset in range(0, len(ids), maxBatchSize) ]
Partition(list, size) ==
    LET offsets == Range(0, Len(list), size)
    IN  [k \in 1..Len(offsets) |-> Slice(list, offsets[k], offsets[k] + size)]

\* the service's answer to a search: one record per submitted identifier
SearchPayload(identifiers) ==
    [supporters |->
        [k \in 1..Len(identifiers) |->
            [supporterId |-> identifiers[k],
             result |-> IF identifiers[k] \in KnownSupporters
                        THEN "FOUND" ELSE "NOT_FOUND"]]]

\* ExtractRows that skips the first record of the payload
ExtractRows_SkipsFirst(p) ==
    [k \in 1..(Len(p.supporters) - 1) |->
        <<p.supporters[k + 1].supporterId, p.supporters[k + 1].result>>]

\* process: rows = [ [ r["supporterId"], r["result"]] for r in payload["supporters"]]
ExtractRows(p) ==
    [k \in 1..Len(p.supporters) |->
        <<p.supporters[k].supporterId, p.supporters[k].result>>]

\* get_search_payload: if (r.status_code != 200): ... exit(1)
SearchFails(code) == code # 200

\* ------------------------------------------------------------------------
\* manage_supporters.py: the main thread
\* ------------------------------------------------------------------------
\* GetMetrics that sleeps on a 429 answer and returns its payload
GetMetrics_Returns429 ==
    /\ mainpc = "metrics"
    /\ \E code \in ServiceStatuses, size \in 1..MaxBatchSize :
          /\ metricsStatus' = code
          /\ IF code \in {200, 429}
             THEN mainpc' = "read" /\ maxBatchSize' = size
             ELSE /\ mainpc' = "exited"
                  /\ UNCHANGED maxBatchSize
    /\ UNCHANGED <<idFile, ids, batches, q, unfinished_tasks, sink, closed,
                   nextThread, pc, batch, rows, status, gets, calls>>
    /\ UNCHANGED <<method, ipc, complete, needNap, response, responses,
                   requests, naps, result, error, endpointVars, envelopeVars,
                   deleteStatus, pageVars>>

\* get_metrics: a 200 answer yields the payload; 429 reaches time.sleep, and
\* the module never imports time (NameError); any other status calls exit(1)
GetMetrics ==
    /\ mainpc = "metrics"
    /\ \E code \in ServiceStatuses, size \in 1..MaxBatchSize :
          /\ metricsStatus' = code
          /\ IF code = 200
             THEN mainpc' = "read" /\ maxBatchSize' = size
             ELSE /\ mainpc' = IF code = 429 THEN "raised" ELSE "exited"
                  /\ UNCHANGED maxBatchSize
    /\ UNCHANGED <<idFile, ids, batches, q, unfinished_tasks, sink, closed,
                   nextThread, pc, batch, rows, status, gets, calls>>
    /\ UNCHANGED <<method, ipc, complete, needNap, response, responses,
                   requests, naps, result, error, endpointVars, envelopeVars,
                   deleteStatus, pageVars>>

ReadIdFile ==
    /\ mainpc = "read"
    /\ ids' = ReadIds(idFile)
    /\ mainpc' = "partition"
    /\ UNCHANGED <<idFile, maxBatchSize, batches, q, unfinished_tasks, sink,
                   closed, nextThread, pc, batch, rows, status, gets, calls>>
    /\ UNCHANGED invokeVars

\* batches = [...]; [ q.put(b) for b in batches ]: each put appends to the
\* queue and counts one unfinished task
BuildBatches ==
    /\ mainpc = "partition"
    /\ batches' = Partition(ids, maxBatchSize)
    /\ q' = [k \in 1..Len(batches') |-> k]
    /\ unfinished_tasks' = unfinished_tasks + Len(batches')
    /\ gets' = [k \in 1..Len(batches') |-> 0]
    /\ calls' = [k \in 1..Len(batches') |-> 0]
    /\ status' = [k \in 1..Len(batches') |-> 0]
    /\ mainpc' = "open"
    /\ UNCHANGED <<idFile, maxBatchSize, ids, sink, closed, nextThread, pc,
                   batch, rows>>
    /\ UNCHANGED invokeVars

\* WriteHeader that opens the file and leaves the header out
WriteHeader_Skips ==
    /\ mainpc = "open"
    /\ sink' = sink
    /\ mainpc' = "start"
    /\ UNCHANGED <<idFile, maxBatchSize, ids, batches, q, unfinished_tasks,
                   closed, nextThread, pc, batch, rows, status, gets, calls>>
    /\ UNCHANGED invokeVars

\* with open(args.csv_file, "w") as f: w.writerow(["SupporterID", "Result"])
WriteHeader ==
    /\ mainpc = "open"
    /\ sink' = Append(sink, HeaderRow)
    /\ mainpc' = "start"
    /\ UNCHANGED <<idFile, maxBatchSize, ids, batches, q, unfinished_tasks,
                   closed, nextThread, pc, batch, rows, status, gets, calls>>
    /\ UNCHANGED invokeVars

\* StartThread that starts one thread a batch, five at most
StartThread_OnePerBatch ==
    /\ mainpc = "start"
    /\ IF nextThread <= NumWorkers /\ nextThread <= Len(batches)
       THEN /\ pc' = [pc EXCEPT ![nextThread] = "loop"]
            /\ nextThread' = nextThread + 1
            /\ UNCHANGED mainpc
       ELSE /\ mainpc' = "join"
            /\ UNCHANGED <<pc, nextThread>>
    /\ UNCHANGED <<idFile, maxBatchSize, ids, batches, q, unfinished_tasks,
                   sink, closed, batch, rows, status, gets, calls>>
    /\ UNCHANGED invokeVars

\* for i in range(1, 6): t = threading.Thread(target=process, ...); t.start()
StartThread ==
    /\ mainpc = "start"
    /\ IF nextThread <= NumWorkers
       THEN /\ pc' = [pc EXCEPT ![nextThread] = "loop"]
            /\ nextThread' = nextThread + 1
            /\ UNCHANGED mainpc
       ELSE /\ mainpc' = "join"
            /\ UNCHANGED <<pc, nextThread>>
    /\ UNCHANGED <<idFile, maxBatchSize, ids, batches, q, unfinished_tasks,
                   sink, closed, batch, rows, status, gets, calls>>
    /\ UNCHANGED invokeVars

\* q.join(): returns once unfinished_tasks is zero
Join ==
    /\ mainpc = "join"
    /\ unfinished_tasks = 0
    /\ mainpc' = "close"
    /\ UNCHANGED <<idFile, maxBatchSize, ids, batches, q, unfinished_tasks,
                   sink, closed, nextThread, pc, batch, rows, status, gets,
                   calls>>
    /\ UNCHANGED invokeVars

\* f.close(), end of both with blocks, main returns
Close ==
    /\ mainpc = "close"
    /\ closed' = TRUE
    /\ mainpc' = "done"
    /\ UNCHANGED <<idFile, maxBatchSize, ids, batches, q, unfinished_tasks,
                   sink, nextThread, pc, batch, rows, status, gets, calls>>
    /\ UNCHANGED invokeVars

\* ------------------------------------------------------------------------
\* manage_supporters.py: the worker threads (process)
\* ------------------------------------------------------------------------
\* Loop that also leaves once any search has failed
Loop_StopsAfterFailure(w) ==
    /\ pc[w] = "loop"
    /\ IF q = <<>> \/ \E b \in 1..Len(status) : status[b] \notin {0, 200}
       THEN /\ pc' = [pc EXCEPT ![w] = "done"]
            /\ batch' = [batch EXCEPT ![w] = 0]
       ELSE /\ pc' = [pc EXCEPT ![w] = "get"]
            /\ UNCHANGED batch
    /\ UNCHANGED <<idFile, mainpc, maxBatchSize, ids, batches, q,
                   unfinished_tasks, sink, closed, nextThread, rows,
                   status, gets, calls>>
    /\ UNCHANGED invokeVars

\* while not(q.empty()): ... ; print(f"process-{i}: done"). Returning from
\* process discards the thread's locals.
Loop(w) ==
    /\ pc[w] = "loop"
    /\ IF q = <<>>
       THEN /\ pc' = [pc EXCEPT ![w] = "done"]
            /\ batch' = [batch EXCEPT ![w] = 0]
       ELSE /\ pc' = [pc EXCEPT ![w] = "get"]
            /\ UNCHANGED batch
    /\ UNCHANGED <<idFile, mainpc, maxBatchSize, ids, batches, q,
                   unfinished_tasks, sink, closed, nextThread, rows,
                   status, gets, calls>>
    /\ UNCHANGED invokeVars

\* Get that reads the head of the queue without removing it
Get_Peek(w) ==
    /\ pc[w] = "get"
    /\ q # <<>>
    /\ batch' = [batch EXCEPT ![w] = Head(q)]
    /\ gets' = [gets EXCEPT ![Head(q)] = @ + 1]
    /\ pc' = [pc EXCEPT ![w] = "call"]
    /\ UNCHANGED <<idFile, mainpc, maxBatchSize, ids, batches, q,
                   unfinished_tasks, sink, closed, nextThread, rows, status,
                   calls>>
    /\ UNCHANGED invokeVars

\* Get that takes the newest entry of the queue
Get_Lifo(w) ==
    /\ pc[w] = "get"
    /\ q # <<>>
    /\ batch' = [batch EXCEPT ![w] = q[Len(q)]]
    /\ q' = SubSeq(q, 1, Len(q) - 1)
    /\ gets' = [gets EXCEPT ![q[Len(q)]] = @ + 1]
    /\ pc' = [pc EXCEPT ![w] = "call"]
    /\ UNCHANGED <<idFile, mainpc, maxBatchSize, ids, batches,
                   unfinished_tasks, sink, closed, nextThread, rows, status,
                   calls>>
    /\ UNCHANGED invokeVars

\* batch = q.get(): blocks while the queue is empty
Get(w) ==
    /\ pc[w] = "get"
    /\ q # <<>>
    /\ batch' = [batch EXCEPT ![w] = Head(q)]
    /\ q' = Tail(q)
    /\ gets' = [gets EXCEPT ![Head(q)] = @ + 1]
    /\ pc' = [pc EXCEPT ![w] = "call"]
    /\ UNCHANGED <<idFile, mainpc, maxBatchSize, ids, batches,
                   unfinished_tasks, sink, closed, nextThread, rows, status,
                   calls>>
    /\ UNCHANGED invokeVars

\* Call whose failure rolls the sink back to the header
Call_RollsBack(w) ==
    /\ pc[w] = "call"
    /\ \E code \in ServiceStatuses :
          /\ status' = [status EXCEPT ![batch[w]] = code]
          /\ IF SearchFails(code)
             THEN /\ pc' = [pc EXCEPT ![w] = "exited"]
                  /\ batch' = [batch EXCEPT ![w] = 0]
                  /\ sink' = SubSeq(sink, 1, 1)
                  /\ UNCHANGED rows
             ELSE /\ rows' = [rows EXCEPT
                                ![w] = ExtractRows(SearchPayload(batches[batch[w]]))]
                  /\ pc' = [pc EXCEPT ![w] = "write"]
                  /\ UNCHANGED <<batch, sink>>
    /\ calls' = [calls EXCEPT ![batch[w]] = @ + 1]
    /\ UNCHANGED <<idFile, mainpc, maxBatchSize, ids, batches, q,
                   unfinished_tasks, closed, nextThread, gets>>
    /\ UNCHANGED invokeVars

\* Call whose failure puts the batch back on the queue
Call_Requeues(w) ==
    /\ pc[w] = "call"
    /\ \E code \in ServiceStatuses :
          /\ status' = [status EXCEPT ![batch[w]] = code]
          /\ IF SearchFails(code)
             THEN /\ pc' = [pc EXCEPT ![w] = "exited"]
                  /\ batch' = [batch EXCEPT ![w] = 0]
                  /\ q' = Append(q, batch[w])
                  /\ UNCHANGED rows
             ELSE /\ rows' = [rows EXCEPT
                                ![w] = ExtractRows(SearchPayload(batches[batch[w]]))]
                  /\ pc' = [pc EXCEPT ![w] = "write"]
                  /\ UNCHANGED <<batch, q>>
    /\ calls' = [calls EXCEPT ![batch[w]] = @ + 1]
    /\ UNCHANGED <<idFile, mainpc, maxBatchSize, ids, batches,
                   unfinished_tasks, sink, closed, nextThread, gets>>
    /\ UNCHANGED invokeVars

\* Call that takes rows from the answer whatever its status
Call_RowsOnFailure(w) ==
    /\ pc[w] = "call"
    /\ \E code \in ServiceStatuses :
          /\ status' = [status EXCEPT ![batch[w]] = code]
          /\ rows' = [rows EXCEPT
                        ![w] = ExtractRows(SearchPayload(batches[batch[w]]))]
          /\ pc' = [pc EXCEPT ![w] = "write"]
          /\ UNCHANGED batch
    /\ calls' = [calls EXCEPT ![batch[w]] = @ + 1]
    /\ UNCHANGED <<idFile, mainpc, maxBatchSize, ids, batches, q,
                   unfinished_tasks, sink, closed, nextThread, gets>>
    /\ UNCHANGED invokeVars

\* payload = payload_getter(args, batch) with payload_getter =
\* get_search_payload, then rows = [...]. exit(1) raises SystemExit, which
\* ends the calling thread only (and discards its locals).
Call(w) ==
    /\ pc[w] = "call"
    /\ \E code \in ServiceStatuses :
          /\ status' = [status EXCEPT ![batch[w]] = code]
          /\ IF SearchFails(code)
             THEN /\ pc' = [pc EXCEPT ![w] = "exited"]
                  /\ batch' = [batch EXCEPT ![w] = 0]
                  /\ UNCHANGED rows
             ELSE /\ rows' = [rows EXCEPT
                                ![w] = ExtractRows(SearchPayload(batches[batch[w]]))]
                  /\ pc' = [pc EXCEPT ![w] = "write"]
                  /\ UNCHANGED batch
    /\ calls' = [calls EXCEPT ![batch[w]] = @ + 1]
    /\ UNCHANGED <<idFile, mainpc, maxBatchSize, ids, batches, q,
                   unfinished_tasks, sink, closed, nextThread, gets>>
    /\ UNCHANGED invokeVars

\* WriteRow that puts each row right after the header
WriteRow_Prepends(w) ==
    /\ pc[w] = "write"
    /\ IF rows[w] = <<>>
       THEN /\ pc' = [pc EXCEPT ![w] = "loop"]
            /\ UNCHANGED <<sink, rows>>
       ELSE IF closed
       THEN /\ pc' = [pc EXCEPT ![w] = "raised"]
            /\ UNCHANGED <<sink, rows>>
       ELSE /\ sink' = <<Head(sink), Head(rows[w])>> \o Tail(sink)
            /\ rows' = [rows EXCEPT ![w] = Tail(@)]
            /\ pc' = [pc EXCEPT ![w] = IF Tail(rows[w]) = <<>> THEN "loop"
                                       ELSE "write"]
    /\ batch' = [batch EXCEPT ![w] = IF pc'[w] = "write" THEN @ ELSE 0]
    /\ UNCHANGED <<idFile, mainpc, maxBatchSize, ids, batches, q,
                   unfinished_tasks, closed, nextThread, status, gets,
                   calls>>
    /\ UNCHANGED invokeVars

\* WriteRow that writes the rows of a call from the last to the first
WriteRow_LastFirst(w) ==
    /\ pc[w] = "write"
    /\ IF rows[w] = <<>>
       THEN /\ pc' = [pc EXCEPT ![w] = "loop"]
            /\ UNCHANGED <<sink, rows>>
       ELSE IF closed
       THEN /\ pc' = [pc EXCEPT ![w] = "raised"]
            /\ UNCHANGED <<sink, rows>>
       ELSE /\ sink' = Append(sink, rows[w][Len(rows[w])])
            /\ rows' = [rows EXCEPT ![w] = SubSeq(@, 1, Len(@) - 1)]
            /\ pc' = [pc EXCEPT ![w] = IF Tail(rows[w]) = <<>> THEN "loop"
                                       ELSE "write"]
    /\ batch' = [batch EXCEPT ![w] = IF pc'[w] = "write" THEN @ ELSE 0]
    /\ UNCHANGED <<idFile, mainpc, maxBatchSize, ids, batches, q,
                   unfinished_tasks, closed, nextThread, status, gets,
                   calls>>
    /\ UNCHANGED invokeVars

\* get_search_payload, lines 140-142: the body of the search request
SearchRequest(identifiers) ==
    [payload |-> [identifiers |-> identifiers,
                  identifierType |-> "SUPPORTER_ID"]]

\* what a call of the search operation came to: the exit of the caller, or
\* the rows extracted from the payload
SearchExit == [exit |-> 1, rows |-> <<>>]
SearchRows(rs) == [exit |-> 0, rows |-> rs]

\* the largest number of calls of the search operation on one batch
NumSearches == 2

\* SearchOnce of a client that remembers the identifiers it has searched
\* for and leaves them out of later requests
SearchOnce_SkipsSeen ==
    /\ searchIds # <<>>
    /\ Len(searchOutcomes) < NumSearches
    /\ LET seen == UNION {Range1(searchSent[k].payload.identifiers) :
                             k \in 1..Len(searchSent)}
           fresh == SelectSeq(searchIds, LAMBDA x : x \notin seen)
       IN  /\ searchSent' = Append(searchSent, SearchRequest(fresh))
           /\ searchOutcomes' =
                  Append(searchOutcomes,
                         IF SearchFails(searchStatus) THEN SearchExit
                         ELSE SearchRows(ExtractRows(SearchPayload(fresh))))
    /\ UNCHANGED <<searchIds, searchStatus>>
    /\ UNCHANGED <<coreVars, pageOnlyVars, nonSearchVars>>

\* one call of the search operation: get_search_payload, lines 138-150,
\* then the row extraction of process, line 185. Everything the call uses
\* is built from its arguments; the service answers the same request the
\* same way
SearchOnce ==
    /\ searchIds # <<>>
    /\ Len(searchOutcomes) < NumSearches
    /\ searchSent' = Append(searchSent, SearchRequest(searchIds))
    /\ searchOutcomes' =
           Append(searchOutcomes,
                  IF SearchFails(searchStatus) THEN SearchExit
                  ELSE SearchRows(ExtractRows(SearchPayload(searchIds))))
    /\ UNCHANGED <<searchIds, searchStatus>>
    /\ UNCHANGED <<coreVars, pageOnlyVars, nonSearchVars>>

\* the fields of a supporter record that process reads
RecordFields == {"supporterId", "result"}

\* the payload of a service that leaves the field `field` out of the record
\* of every identifier in bad
FaultyPayload(identifiers, bad, field) ==
    [supporters |->
        [k \in 1..Len(identifiers) |->
            IF identifiers[k] \notin bad
            THEN SearchPayload(identifiers).supporters[k]
            ELSE IF field = "result"
            THEN [supporterId |-> identifiers[k]]
            ELSE [result |-> "NOT_FOUND"]]]

\* r["supporterId"], r["result"] in the list comprehension of process
\* raises KeyError on a record without the field
RaisesKeyError(p) ==
    \E k \in 1..Len(p.supporters) :
        ~(RecordFields \subseteq DOMAIN p.supporters[k])

\* process, lines 184-185, against a service that may leave a field out:
\* the KeyError is raised inside the list comprehension, before rows is
\* bound, and, uncaught, ends the thread
CallFaulty(w) ==
    /\ pc[w] = "call"
    /\ \E code \in ServiceStatuses, field \in RecordFields :
          /\ status' = [status EXCEPT ![batch[w]] = code]
          /\ IF SearchFails(code)
             THEN /\ pc' = [pc EXCEPT ![w] = "exited"]
                  /\ batch' = [batch EXCEPT ![w] = 0]
                  /\ UNCHANGED rows
             ELSE IF RaisesKeyError(
                        FaultyPayload(batches[batch[w]], broken, field))
             THEN /\ pc' = [pc EXCEPT ![w] = "raised"]
                  /\ batch' = [batch EXCEPT ![w] = 0]
                  /\ UNCHANGED rows
             ELSE /\ rows' = [rows EXCEPT
                                ![w] = ExtractRows(FaultyPayload(
                                           batches[batch[w]], broken, field))]
                  /\ pc' = [pc EXCEPT ![w] = "write"]
                  /\ UNCHANGED batch
    /\ calls' = [calls EXCEPT ![batch[w]] = @ + 1]
    /\ UNCHANGED <<idFile, mainpc, maxBatchSize, ids, batches, q,
                   unfinished_tasks, sink, closed, nextThread, gets>>
    /\ UNCHANGED invokeVars

\* payload = payload_getter(args, batch) with payload_getter =
\* get_delete_payload, whose parameters are (thread_id, args, ids): the call
\* passes two arguments for three parameters and raises TypeError before the
\* body runs, so no delete request is sent and nothing is answered; the
\* uncaught exception ends the calling thread. (Entered with three
\* arguments the body stops at its line 94, `success = false`, with a
\* NameError, again before any request.)
CallDelete(w) ==
    /\ pc[w] = "call"
    /\ calls' = [calls EXCEPT ![batch[w]] = @ + 1]
    /\ pc' = [pc EXCEPT ![w] = "raised"]
    /\ batch' = [batch EXCEPT ![w] = 0]
    /\ UNCHANGED <<idFile, mainpc, maxBatchSize, ids, batches, q,
                   unfinished_tasks, sink, closed, nextThread, rows, status,
                   gets>>
    /\ UNCHANGED invokeVars

\* w.writerows(rows): the writer is shared and unsynchronised, so the rows
\* of one call reach the file one at a time; writing to a closed file
\* raises. After the last row the batch is no longer in use.
WriteRow(w) ==
    /\ pc[w] = "write"
    /\ IF rows[w] = <<>>
       THEN /\ pc' = [pc EXCEPT ![w] = "loop"]
            /\ UNCHANGED <<sink, rows>>
       ELSE IF closed
       THEN /\ pc' = [pc EXCEPT ![w] = "raised"]
            /\ UNCHANGED <<sink, rows>>
       ELSE /\ sink' = Append(sink, Head(rows[w]))
            /\ rows' = [rows EXCEPT ![w] = Tail(@)]
            /\ pc' = [pc EXCEPT ![w] = IF Tail(rows[w]) = <<>> THEN "loop"
                                       ELSE "write"]
    /\ batch' = [batch EXCEPT ![w] = IF pc'[w] = "write" THEN @ ELSE 0]
    /\ UNCHANGED <<idFile, mainpc, maxBatchSize, ids, batches, q,
                   unfinished_tasks, closed, nextThread, status, gets,
                   calls>>
    /\ UNCHANGED invokeVars

\* the exit status of the process, -1 while it runs: exit(1) in the main
\* thread (get_metrics) and an uncaught exception in it give 1; after main
\* returns the interpreter waits for the worker threads and then exits 0
ExitCode ==
    IF mainpc \in {"exited", "raised"} THEN 1
    ELSE IF mainpc = "done"
            /\ \A w \in Workers : pc[w] \in {"done", "exited", "raised"}
         THEN 0
         ELSE -1

\* ------------------------------------------------------------------------
\* pkg/net.py: Invoker.invoke
\* ------------------------------------------------------------------------
\* the two phrases invoke looks for in response.text
BatchSizeMarker == "Requested batch size exceeds the allowed size"
CallRateMarker == "Your per minute call rate"

\* a response body is described by the marker phrases that occur in it
Bodies == SUBSET {BatchSizeMarker, CallRateMarker}
Payloads == {"payload1", "payload2"}
Responses == [status_code : ServiceStatuses, text : Bodies, payload : Payloads]
NoResponse == [status_code |-> 0, text |-> {}, payload |-> "none"]

\* an exception: its type and what its message carries, each part given as
\* the set of values of that kind in the message (empty: not in the message)
NoMessage == [status_code |-> {}, url |-> {}, text |-> {}, name |-> {}]
NoError == [type |-> "none", message |-> NoMessage]

\* ------------------------------------------------------------------------
\* pkg/net.py: Endpoint.__init__
\* ------------------------------------------------------------------------
\* python None
None == "<None>"
DefaultHost == "api.salsalabs.org"
Path == "/api/integration/ext/v1/activities/search"
Token == "token"

\* the endpoint.method values tried: the four invoke knows and "DELETE"
Methods == {"POST", "GET", "PUT", "DEL", "DELETE"}

\* the keyword arguments tried; a keyword not given leaves the attribute None
KwargsSet ==
    [endpoint : {None, "", Path},
     host : {None, "engage.example.org"},
     method : {None} \cup Methods,
     token : {None, "", Token}]

NoKwargs == [endpoint |-> None, host |-> None, method |-> None, token |-> None]

NoEndpoint ==
    [endpoint |-> None, host |-> None, method |-> None, token |-> None,
     headers |-> [ContentType |-> None, authToken |-> None], url |-> <<>>]

\* Missing that does not look at the token
Missing_IgnoresToken(kw) ==
    IF kw.endpoint = None THEN "endpoint"
    ELSE IF kw.method = None THEN "method"
    ELSE None

\* __init__, lines 49-56: the name the NameError carries, None when no
\* NameError is raised
Missing(kw) ==
    IF kw.endpoint = None THEN "endpoint"
    ELSE IF kw.method = None THEN "method"
    ELSE IF kw.token = None THEN "token"
    ELSE None

\* NewEndpoint that leaves a missing host as it is
NewEndpoint_NoDefaultHost(kw) ==
    [endpoint |-> kw.endpoint,
     host |-> kw.host,
     method |-> kw.method,
     token |-> kw.token,
     headers |-> [ContentType |-> "application/json", authToken |-> kw.token],
     url |-> <<"https", kw.host, kw.endpoint>>]

\* __init__, lines 43-63: the attributes of the object once construction
\* succeeds; url = urlunsplit(('https', host, endpoint, None, None))
NewEndpoint(kw) ==
    LET host == IF kw.host = None THEN DefaultHost ELSE kw.host
    IN  [endpoint |-> kw.endpoint,
         host |-> host,
         method |-> kw.method,
         token |-> kw.token,
         headers |-> [ContentType |-> "application/json",
                      authToken |-> kw.token],
         url |-> <<"https", host, kw.endpoint>>]

\* python: phrase in response.text
Contains(text, phrase) == phrase \in text

\* request envelopes a caller passes to invoke (opaque documents)
Envelopes == {"envelope1", "envelope2"}
NoEnvelope == "none"

\* the session call invoke makes for each endpoint.method
Verb == [POST |-> "post", GET |-> "get", PUT |-> "put", DEL |-> "delete"]

\* Raises that lets a status other than 200 and 429 through
Raises_Not500(r) ==
    /\ r.status_code = 429
    /\ Contains(r.text, BatchSizeMarker)

\* Raises that treats every 429 as an error
Raises_Every429(r) == r.status_code # 200

\* invoke, lines 128-136: the responses that raise
Raises(r) ==
    /\ r.status_code # 200
    /\ (r.status_code = 429 => Contains(r.text, BatchSizeMarker))

\* NeedsNap that forgets the nap after a 429
NeedsNap_Not429(r) ==
    IF r.status_code # 200
    THEN FALSE
    ELSE Contains(r.text, CallRateMarker)

\* invoke, lines 127-140: the value of needNap after the checks
NeedsNap(r) ==
    IF r.status_code # 200
    THEN r.status_code = 429 /\ ~Contains(r.text, BatchSizeMarker)
    ELSE Contains(r.text, CallRateMarker)

\* Completes that ignores the call-rate marker
Completes_IgnoresMarker(r) == r.status_code = 200

\* invoke, lines 137-142: the responses that set complete
Completes(r) == r.status_code = 200 /\ ~Contains(r.text, CallRateMarker)

\* Raised whose message for a hard failure leaves the URL out
Raised_NoUrl(r) ==
    IF r.status_code = 429
    THEN [type |-> "Exception",
          message |-> [NoMessage EXCEPT !.status_code = {429},
                                        !.text = {r.text}]]
    ELSE [type |-> "Exception",
          message |-> [NoMessage EXCEPT !.status_code = {r.status_code}]]

\* invoke, lines 128-136: the exception raised:
\* Exception(f"Invoker: HTTP status 429, {response.text}") or
\* Exception(f"HTTP Status {response.status_code}, {self.endpoint.url}")
Raised(r) ==
    IF r.status_code = 429
    THEN [type |-> "Exception",
          message |-> [NoMessage EXCEPT !.status_code = {429},
                                        !.text = {r.text}]]
    ELSE [type |-> "Exception",
          message |-> [NoMessage EXCEPT !.status_code = {r.status_code},
                                        !.url = {ep.url}]]

\* Endpoint(**kwargs)
Construct ==
    /\ epc = "init"
    /\ IF Missing(kwargs) # None
       THEN /\ error' = [type |-> "NameError",
                         message |-> [NoMessage EXCEPT
                                        !.name = {Missing(kwargs)}]]
            /\ epc' = "raised"
            /\ UNCHANGED ep
       ELSE /\ ep' = NewEndpoint(kwargs)
            /\ epc' = "constructed"
            /\ UNCHANGED error
    /\ UNCHANGED <<kwargs, method, ipc, complete, needNap, response,
                   responses, requests, naps, result>>
    /\ UNCHANGED envelopeVars
    /\ UNCHANGED serviceVars
    /\ UNCHANGED pageVars
    /\ UNCHANGED batchVars

\* i = Invoker(ep); i.invoke(request): complete = False, response = None
NewInvoker ==
    /\ epc = "constructed"
    /\ ipc = "idle"
    /\ request' \in Envelopes
    /\ method' = ep.method
    /\ complete' = FALSE
    /\ response' = NoResponse
    /\ ipc' = "loop"
    /\ UNCHANGED <<needNap, responses, requests, naps, result, error>>
    /\ UNCHANGED endpointVars
    /\ UNCHANGED sent
    /\ UNCHANGED serviceVars
    /\ UNCHANGED pageVars
    /\ UNCHANGED batchVars

\* while not complete: one request by the endpoint's method; the else branch
\* formats self.method, which Invoker does not have (AttributeError)
InvokeSend ==
    /\ ipc = "loop"
    /\ ~complete
    /\ Len(requests) < MaxRequests
    /\ IF method \in DOMAIN Verb
       THEN /\ \E r \in Responses :
                  /\ response' = r
                  /\ responses' = Append(responses, r)
            /\ requests' = Append(requests, Verb[method])
            /\ sent' = Append(sent, [url |-> ep.url, headers |-> ep.headers,
                                     envelope |-> request])
            /\ ipc' = "check"
            /\ UNCHANGED error
       ELSE /\ error' = [type |-> "AttributeError",
                         message |-> [NoMessage EXCEPT !.name = {"method"}]]
            /\ ipc' = "raised"
            /\ UNCHANGED <<response, responses, requests, sent>>
    /\ UNCHANGED <<method, complete, needNap, naps, result>>
    /\ UNCHANGED endpointVars
    /\ UNCHANGED request
    /\ UNCHANGED serviceVars
    /\ UNCHANGED pageVars
    /\ UNCHANGED batchVars

\* needNap = False; if response.status_code != 200: ... else: ...
InvokeCheck ==
    /\ ipc = "check"
    /\ IF Raises(response)
       THEN /\ error' = Raised(response)
            /\ needNap' = FALSE
            /\ ipc' = "raised"
            /\ UNCHANGED complete
       ELSE /\ needNap' = NeedsNap(response)
            /\ complete' = Completes(response)
            /\ ipc' = IF needNap' THEN "nap" ELSE "loop"
            /\ UNCHANGED error
    /\ UNCHANGED <<method, response, responses, requests, naps, result>>
    /\ UNCHANGED endpointVars
    /\ UNCHANGED envelopeVars
    /\ UNCHANGED serviceVars
    /\ UNCHANGED pageVars
    /\ UNCHANGED batchVars

\* InvokeNap that also drops the token from the session headers
InvokeNap_DropsToken ==
    /\ ipc = "nap"
    /\ naps' = Append(naps, NapSeconds)
    /\ ipc' = "loop"
    /\ ep' = [ep EXCEPT !.headers = [@ EXCEPT !.authToken = None]]
    /\ UNCHANGED <<method, complete, needNap, response, responses, requests,
                   result, error>>
    /\ UNCHANGED <<kwargs, epc>>
    /\ UNCHANGED envelopeVars
    /\ UNCHANGED serviceVars
    /\ UNCHANGED pageVars
    /\ UNCHANGED batchVars

\* if needNap: time.sleep(30)
InvokeNap ==
    /\ ipc = "nap"
    /\ naps' = Append(naps, NapSeconds)
    /\ ipc' = "loop"
    /\ UNCHANGED <<method, complete, needNap, response, responses, requests,
                   result, error>>
    /\ UNCHANGED endpointVars
    /\ UNCHANGED envelopeVars
    /\ UNCHANGED serviceVars
    /\ UNCHANGED pageVars
    /\ UNCHANGED batchVars

\* return response.json()['payload']
InvokeReturn ==
    /\ ipc = "loop"
    /\ complete
    /\ result' = response.payload
    /\ ipc' = "returned"
    /\ UNCHANGED <<method, complete, needNap, response, responses, requests,
                   naps, error>>
    /\ UNCHANGED endpointVars
    /\ UNCHANGED envelopeVars
    /\ UNCHANGED serviceVars
    /\ UNCHANGED pageVars
    /\ UNCHANGED batchVars

\* ------------------------------------------------------------------------
\* Offset pagination: activity/activity_form_list.py (listActivities)
\* ------------------------------------------------------------------------

\* count = 20 / 'count': 20: the page size the scripts start with
DefaultCount == 20

\* the service: of t records, the number returned for a request of cnt
\* records from offset off on
PageCount(t, off, cnt) == Min(cnt, IF off >= t THEN 0 ELSE t - off)

\* one request of a loop and its answer
Page(off, cnt, n, sentCursor, gotCursor) ==
    [offset |-> off, count |-> cnt, returned |-> n, cursor |-> sentCursor,
     received |-> gotCursor]

\* activityTypes = listActivityTypes(token); writer.writerow(columns):
\* a status other than 200 is fatal (exit(1))
ListActivityTypes ==
    /\ script = "listActivities"
    /\ ppc = "types"
    /\ \E code \in ServiceStatuses :
          ppc' = IF code = 200 THEN "while" ELSE "exited"
    /\ UNCHANGED <<script, total, pageSize, offset, count, todo, written,
                   typeIdx, cursor, pages>>
    /\ UNCHANGED nonPageVars

\* while count > 0: the request of one page, count = dPayload['count'],
\* `continue` on an empty page
ListPage ==
    /\ script = "listActivities"
    /\ ppc = "while"
    /\ IF count > 0
       THEN \E code \in ServiceStatuses :
               IF code # 200
               THEN /\ ppc' = "exited"
                    /\ UNCHANGED <<count, todo, pages>>
               ELSE LET n == PageCount(total, offset, count)
                    IN  /\ pages' = Append(pages,
                                           Page(offset, count, n, None, None))
                        /\ count' = n
                        /\ todo' = n
                        /\ ppc' = IF n = 0 THEN "while" ELSE "rows"
       ELSE /\ ppc' = "done"
            /\ UNCHANGED <<count, todo, pages>>
    /\ UNCHANGED <<script, total, pageSize, offset, written, typeIdx, cursor>>
    /\ UNCHANGED nonPageVars

\* for r in dResults: ... writer.writerow(row); offset = offset + count
\* (the assignment to offset is inside the for loop, once for every result)
ListRow ==
    /\ script = "listActivities"
    /\ ppc = "rows"
    /\ todo > 0
    /\ written' = written + 1
    /\ offset' = offset + count
    /\ todo' = todo - 1
    /\ ppc' = IF todo' = 0 THEN "while" ELSE "rows"
    /\ UNCHANGED <<script, total, pageSize, count, typeIdx, cursor, pages>>
    /\ UNCHANGED nonPageVars

\* ------------------------------------------------------------------------
\* Offset pagination: supporter/stc_custom_fields.py (scanForms),
\* supporter/stc_photo_release.py, segments/see_members.py (run)
\* ------------------------------------------------------------------------
\* len(payloadTypes) in stc_photo_release.py
NumPayloadTypes == 5

\* --count of see_members.py: any int, 20 by default
ArgCounts == {0, 1, 2, DefaultCount}

\* Continues that goes on while the last page held records
Continues_WhileNonEmpty(cnt, size) == cnt > 0

\* while rPayload['count'] == 20 / while ...['count'] == args.count
Continues(cnt, size) == cnt = size

\* scanForms, lines 37-51: one page; every result goes to scanMetadata,
\* which ends the program when its request is not answered with 200
ScanFormsPage ==
    /\ script = "scanForms"
    /\ ppc = "while"
    /\ IF Continues(count, DefaultCount)
       THEN /\ Len(pages) < MaxPages
            /\ \E code \in ServiceStatuses, metadataOk \in BOOLEAN :
                  IF code # 200
                  THEN /\ ppc' = "exited"
                       /\ UNCHANGED <<count, offset, pages>>
                  ELSE LET n == PageCount(total, offset, count)
                       IN  /\ pages' = Append(pages,
                                          Page(offset, count, n, None, None))
                           /\ IF n > 0 /\ ~metadataOk
                              THEN /\ ppc' = "exited"
                                   /\ UNCHANGED <<count, offset>>
                              ELSE /\ count' = n
                                   /\ offset' = offset + n
                                   /\ UNCHANGED ppc
       ELSE /\ ppc' = "done"
            /\ UNCHANGED <<count, offset, pages>>
    /\ UNCHANGED <<script, total, pageSize, todo, written, typeIdx, cursor>>
    /\ UNCHANGED nonPageVars

\* stc_photo_release.py, lines 36-54: one page of the current payloadType
PhotoReleasePage ==
    /\ script = "photo_release"
    /\ ppc = "while"
    /\ Continues(count, DefaultCount)
    /\ Len(pages) < MaxPages
    /\ \E code \in ServiceStatuses :
          IF code # 200
          THEN /\ ppc' = "exited"
               /\ UNCHANGED <<count, offset, pages>>
          ELSE LET n == PageCount(total, offset, count)
               IN  /\ pages' = Append(pages,
                                      Page(offset, count, n, None, None))
                   /\ count' = n
                   /\ offset' = offset + n
                   /\ UNCHANGED ppc
    /\ UNCHANGED <<script, total, pageSize, todo, written, typeIdx, cursor>>
    /\ UNCHANGED nonPageVars

\* stc_photo_release.py, lines 29-35: for payloadType in payloadTypes, a
\* new rPayload (offset 0, count 20) for the next type; the service holds
\* some number of activities of that type
PhotoReleaseNextType ==
    /\ script = "photo_release"
    /\ ppc = "while"
    /\ ~Continues(count, DefaultCount)
    /\ IF typeIdx < NumPayloadTypes
       THEN /\ typeIdx' = typeIdx + 1
            /\ total' \in 0..MaxTotal
            /\ offset' = 0
            /\ count' = DefaultCount
            /\ pages' = <<>>
            /\ UNCHANGED ppc
       ELSE /\ ppc' = "done"
            /\ UNCHANGED <<typeIdx, total, offset, count, pages>>
    /\ UNCHANGED <<script, pageSize, todo, written, cursor>>
    /\ UNCHANGED nonPageVars

\* see_members.run, lines 132-147: one page; an answer without the
\* 'supporters' field (Engage leaves empty fields out) ends the program
SeeMembersPage ==
    /\ script = "see_members"
    /\ ppc = "while"
    /\ IF Continues(count, pageSize)
       THEN /\ Len(pages) < MaxPages
            /\ \E code \in ServiceStatuses, hasSupporters \in BOOLEAN :
                  IF code # 200
                  THEN /\ ppc' = "exited"
                       /\ UNCHANGED <<count, offset, pages>>
                  ELSE LET n == PageCount(total, offset, count)
                       IN  /\ n > 0 => hasSupporters
                           /\ pages' = Append(pages,
                                          Page(offset, count, n, None, None))
                           /\ IF ~hasSupporters
                              THEN /\ ppc' = "exited"
                                   /\ UNCHANGED <<count, offset>>
                              ELSE /\ count' = n
                                   /\ offset' = offset + n
                                   /\ UNCHANGED ppc
       ELSE /\ ppc' = "done"
            /\ UNCHANGED <<count, offset, pages>>
    /\ UNCHANGED <<script, total, pageSize, todo, written, typeIdx, cursor>>
    /\ UNCHANGED nonPageVars

\* ------------------------------------------------------------------------
\* Cursor pagination: email_blast/get_single_blast.py (scanEmail,
\* handlePayload)
\* ------------------------------------------------------------------------
\* cursor tokens the service hands out
Cursors == {"cursor1", "cursor2"}

\* what the service may answer with status 200: no entry in
\* individualEmailActivityData, or one entry with recipientsData['total']
\* recipients, of which the list recipientsData['recipients'] holds none or
\* all, and with or without a 'cursor' key (None: no key)
EmailAnswers ==
    [entries : {0}, recipients : {0}, listed : {0}, cursor : {None}]
    \cup {a \in [entries : {1}, recipients : 0..MaxRecipients,
                  listed : 0..MaxRecipients, cursor : Cursors \cup {None}] :
             a.listed \in {0, a.recipients}}

\* scanEmail, lines 281-289, with handlePayload, lines 204-234, and
\* handleRecipients, lines 179-185: one request; count becomes the
\* recipients total of the entry (0 when there is no entry), the entry's
\* cursor, when it has one, goes into the request payload. A recipient in
\* the list goes to oneRecipient, which raises TypeError on it (see
\* OneRecipient): the exception ends scanEmail before the cursor is read
ScanEmailPost ==
    /\ script = "scanEmail"
    /\ ppc = "while"
    /\ IF count > 0
       THEN /\ Len(pages) < MaxCursorPages
            /\ \E code \in ServiceStatuses, a \in EmailAnswers :
                  IF code # 200
                  THEN /\ ppc' = "exited"
                       /\ UNCHANGED <<count, cursor, written, pages>>
                  ELSE IF a.recipients > 0 /\ a.listed > 0
                  THEN /\ pages' = Append(pages,
                                      Page(0, DefaultCount, a.recipients,
                                           cursor, a.cursor))
                       /\ ppc' = "raised"
                       /\ UNCHANGED <<count, cursor, written>>
                  ELSE /\ pages' = Append(pages,
                                      Page(0, DefaultCount, a.recipients,
                                           cursor, a.cursor))
                       /\ count' = a.recipients
                       /\ cursor' = IF a.entries = 1 /\ a.cursor # None
                                    THEN a.cursor ELSE cursor
                       /\ UNCHANGED <<ppc, written>>
       ELSE /\ ppc' = "done"
            /\ UNCHANGED <<count, cursor, written, pages>>
    /\ UNCHANGED <<script, total, pageSize, offset, todo, typeIdx>>
    /\ UNCHANGED nonPageVars

\* ------------------------------------------------------------------------
\* Last action date: activity/generic/activity_form_usage.py
\* (getLastActionDate)
\* ------------------------------------------------------------------------
\* activityDate values; Python compares the date strings, and the empty
\* string lastActionDate starts with is below every date: 0 stands for ""
ActionDates == 1..MaxDate
NoDate == 0

\* --batchSize values getLastActionDate is called with
BatchSizes == {1, 2, DefaultCount}

Max(a, b) == IF a >= b THEN a ELSE b

\* max(list(...)) of a non-empty list
RECURSIVE MaxOf(_)
MaxOf(s) ==
    IF Len(s) = 1 THEN s[1] ELSE Max(s[1], MaxOf(Tail(s)))

\* EngageNet(**params).run(): the client returns the decoded answer on
\* status 200, sleeps and sends again on 429, and fails on any other status
EngageNetRun(code) ==
    CASE code = 200 -> "returned"
      [] code = 429 -> "again"
      [] OTHER -> "raised"

\* LastActionPage that keeps the maximum of the latest page only
LastActionPage_LatestPageOnly ==
    /\ script = "getLastActionDate"
    /\ ppc = "while"
    /\ IF count > 0
       THEN /\ Len(pages) < MaxPages
            /\ \E code \in ServiceStatuses :
                  /\ EngageNetRun(code) # "again"
                  /\ IF EngageNetRun(code) = "raised"
                     THEN /\ ppc' = "raised"
                          /\ UNCHANGED <<count, offset, pages, lastActionDate>>
                     ELSE LET n == PageCount(Len(dates), offset, count)
                              activities == SubSeq(dates, offset + 1,
                                                   offset + n)
                          IN  /\ pages' = Append(pages,
                                             Page(offset, count, n, None,
                                                  None))
                              /\ lastActionDate' =
                                    IF n > 0 THEN MaxOf(activities)
                                    ELSE lastActionDate
                              /\ offset' = offset + n
                              /\ count' = n
                              /\ UNCHANGED ppc
       ELSE /\ ppc' = "done"
            /\ UNCHANGED <<count, offset, pages, lastActionDate>>
    /\ UNCHANGED <<script, total, pageSize, todo, written, typeIdx, cursor,
                   dates>>
    /\ UNCHANGED <<coreVars, nonUsageVars>>

\* getLastActionDate, lines 90-99: one turn of `while
\* payload['payload']['count'] > 0`: the request, the maximum of the page
\* when it holds actions, then offset += p['count'] and count = p['count']
LastActionPage ==
    /\ script = "getLastActionDate"
    /\ ppc = "while"
    /\ IF count > 0
       THEN /\ Len(pages) < MaxPages
            /\ \E code \in ServiceStatuses :
                  /\ EngageNetRun(code) # "again"
                  /\ IF EngageNetRun(code) = "raised"
                     THEN /\ ppc' = "raised"
                          /\ UNCHANGED <<count, offset, pages, lastActionDate>>
                     ELSE LET n == PageCount(Len(dates), offset, count)
                              activities == SubSeq(dates, offset + 1,
                                                   offset + n)
                          IN  /\ pages' = Append(pages,
                                             Page(offset, count, n, None,
                                                  None))
                              /\ lastActionDate' =
                                    IF n > 0
                                    THEN Max(lastActionDate,
                                             MaxOf(activities))
                                    ELSE lastActionDate
                              /\ offset' = offset + n
                              /\ count' = n
                              /\ UNCHANGED ppc
       ELSE /\ ppc' = "done"
            /\ UNCHANGED <<count, offset, pages, lastActionDate>>
    /\ UNCHANGED <<script, total, pageSize, todo, written, typeIdx, cursor,
                   dates>>
    /\ UNCHANGED <<coreVars, nonUsageVars>>

\* ------------------------------------------------------------------------
\* Blast statistics: email_blast/get_single_blast.py (newStats, increment,
\* updateStats, handleDomain, handleSplit, handleStatus, oneRecipient)
\* ------------------------------------------------------------------------
\* a dict without keys
EmptyDict == [k \in {} |-> 0]

\* newStats(), the counters and dicts of a stats object (emailID and type,
\* which the tabulation never touches, left out)
NewStats ==
    [recipients |-> 0, opened |-> 0, clicked |-> 0, converted |-> 0,
     unsubscribed |-> 0, numberOfLinksClicked |-> 0,
     conversion |-> EmptyDict, domain |-> EmptyDict,
     splitName |-> EmptyDict, status |-> EmptyDict,
     blast_status |-> EmptyDict, blast_splitName |-> EmptyDict]

\* an integer held as a value of a dict, and the test that tells a stats
\* object from it
Counter(n) == [count |-> n]
IsStats(v) == "recipients" \in DOMAIN v

\* d[k] = v
Put(d, k, v) == [x \in DOMAIN d \cup {k} |-> IF x = k THEN v ELSE d[x]]

\* the recipient records of the service: every one has status and
\* splitName; supporterEmail may be absent (None), its domain stands for it
RecipientStatuses == {"SENT", "HARD_BOUNCE"}
SplitNames == {"Split A", "Split B"}
EmailDomains == {"example.org", "example.com"}
Recipients ==
    [status : RecipientStatuses, splitName : SplitNames,
     supporterEmail : EmailDomains \cup {None},
     opened : BOOLEAN, clicked : BOOLEAN, converted : BOOLEAN,
     unsubscribed : BOOLEAN, numberOfLinksClicked : {0, 1}]

\* increment(data, field, key) applied to the dict pile = data[field]
Increment(pile, key) ==
    Put(pile, key,
        Counter((IF key \in DOMAIN pile THEN pile[key].count ELSE 0) + 1))

\* incrementIfTrue: the amount added
IfTrue(value) == IF value THEN 1 ELSE 0

\* updateStats(r, stats) for a stats object stats (conversionData absent)
UpdateStats(r, stats) ==
    [stats EXCEPT
        !.recipients = @ + 1,
        !.status = Increment(@, r.status),
        !.splitName = Increment(@, r.splitName),
        !.opened = @ + IfTrue(r.opened),
        !.clicked = @ + IfTrue(r.clicked),
        !.converted = @ + IfTrue(r.converted),
        !.unsubscribed = @ + IfTrue(r.unsubscribed),
        !.numberOfLinksClicked = @ + r.numberOfLinksClicked]

\* handleDomain(r, data)
HandleDomain(r, d) ==
    IF r.supporterEmail = None THEN d
    ELSE LET key == r.supporterEmail
             entry == IF key \in DOMAIN d.domain THEN d.domain[key]
                      ELSE NewStats
         IN  [d EXCEPT !.domain = Put(@, key, UpdateStats(r, entry))]

\* handleSplit / handleStatus: the value updateStats is called on, a new
\* stats object only when the key is not in the dict yet
Target(pile, key) == IF key \in DOMAIN pile THEN pile[key] ELSE NewStats

\* oneRecipient(r, data), lines 163-169. updateStats(r, data) has put
\* integers under data['status'][r['status']] and
\* data['splitName'][r['splitName']]; handleSplit finds its key present,
\* allocates nothing and calls updateStats on the integer, whose
\* data[field] raises TypeError outside the try of oneRecipient
OneRecipient ==
    /\ tpc = "running"
    /\ Len(processed) < MaxTabulated
    /\ \E r \in Recipients :
          LET d1 == UpdateStats(r, data)
              d2 == HandleDomain(r, d1)
              split == Target(d2.splitName, r.splitName)
              d3 == [d2 EXCEPT !.splitName =
                                   Put(@, r.splitName, UpdateStats(r, split))]
              stat == Target(d3.status, r.status)
              d4 == [d3 EXCEPT !.status =
                                   Put(@, r.status, UpdateStats(r, stat))]
          IN  /\ processed' = Append(processed, r)
              /\ IF ~IsStats(split)
                 THEN data' = d2 /\ tpc' = "raised"
                 ELSE IF ~IsStats(stat)
                 THEN data' = d3 /\ tpc' = "raised"
                 ELSE data' = d4 /\ tpc' = tpc
    /\ UNCHANGED <<coreVars, pageOnlyVars, nonStatsVars>>

\* ------------------------------------------------------------------------
\* One request, one report: activity/activity_form_list.py
\* (listActivityTypes), activity/fundraise/see_transactions.py
\* (readTransaction), activity/see_one_activity.py (readActivity)
\* ------------------------------------------------------------------------
Readers == {"listActivityTypes", "readTransaction", "readActivity"}

\* r['result'] of the records of a payload
RecordResults == {"FOUND", "NOT_FOUND"}

\* the answers of the service: status, whether the body has a top-level
\* `errors` field, whether it has a `payload` field, the records in it
Answers == [status_code : ServiceStatuses, errors : BOOLEAN,
            payload : BOOLEAN, records : SeqsUpTo(RecordResults, MaxRecords)]
NoAnswer == [status_code |-> 0, errors |-> FALSE, payload |-> FALSE,
             records |-> <<>>]

\* the lines logged
HttpStatusLine == "error: HTTP status code"
ReadErrorsLine == "Read errors:"
HeaderLine == "header"
RecordLine == "record"
NoMatchLine == "No matching trasactions found"
ResultsLine == "Results:"

\* the request, the status check and the `errors` check:
\* see_transactions.py 56-64, see_one_activity.py 49-57,
\* activity_form_list.py 25-33
ReadPost ==
    /\ reader \in Readers
    /\ rpc = "start"
    /\ \E a \in Answers :
          /\ answer' = a
          /\ IF a.status_code # 200
             THEN /\ log' = Append(log, HttpStatusLine)
                  /\ rpc' = "exited"
             ELSE /\ log' = IF a.errors THEN Append(log, ReadErrorsLine)
                            ELSE log
                  /\ rpc' = "payload"
    /\ UNCHANGED <<reader, summary>>
    /\ UNCHANGED <<coreVars, pageOnlyVars, nonReadVars>>

\* the lines the summary loop logs for the records
RECURSIVE SummaryLines(_)
SummaryLines(records) ==
    IF records = <<>> THEN <<>>
    ELSE <<IF Head(records) = "FOUND" THEN RecordLine ELSE NoMatchLine>>
         \o SummaryLines(Tail(records))

\* dPayload = r.json()['payload'] and what follows:
\* see_transactions.py 65-75, see_one_activity.py 58-68,
\* activity_form_list.py 34-37
ReadPayload ==
    /\ reader \in Readers
    /\ rpc = "payload"
    /\ IF ~answer.payload
       THEN /\ rpc' = "raised"
            /\ UNCHANGED log
       ELSE /\ rpc' = "returned"
            /\ log' = IF reader = "listActivityTypes" THEN log
                      ELSE IF summary
                           THEN log \o <<HeaderLine>>
                                    \o SummaryLines(answer.records)
                           ELSE Append(log, ResultsLine)
    /\ UNCHANGED <<reader, summary, answer>>
    /\ UNCHANGED <<coreVars, pageOnlyVars, nonReadVars>>

\* ------------------------------------------------------------------------
\* Specifications
\* ------------------------------------------------------------------------
\* no one-request script in progress
ReadIdle ==
    /\ reader = "none"
    /\ rpc = "idle"
    /\ summary = FALSE
    /\ answer = NoAnswer
    /\ log = <<>>

\* the service returns every record whole
FaultIdle == broken = {}

\* the search operation is not called on its own
SearchIdle ==
    /\ searchIds = <<>>
    /\ searchStatus = 0
    /\ searchSent = <<>>
    /\ searchOutcomes = <<>>

\* getLastActionDate is not running
UsageIdle ==
    /\ dates = <<>>
    /\ lastActionDate = 0

\* no tabulation in progress, no stats object allocated
StatsIdle ==
    /\ data = EmptyDict
    /\ tpc = "idle"
    /\ processed = <<>>

ToolsIdle == ReadIdle /\ FaultIdle /\ SearchIdle /\ UsageIdle /\ StatsIdle

\* no paginating script in progress
PageIdle ==
    /\ script = "none"
    /\ ppc = "idle"
    /\ total = 0
    /\ pageSize = 0
    /\ offset = 0
    /\ count = 0
    /\ todo = 0
    /\ written = 0
    /\ typeIdx = 0
    /\ cursor = None
    /\ pages = <<>>

\* no invoke in progress
InvokeIdle ==
    /\ method = "POST"
    /\ ipc = "idle"
    /\ complete = FALSE
    /\ needNap = FALSE
    /\ response = NoResponse
    /\ responses = <<>>
    /\ requests = <<>>
    /\ naps = <<>>
    /\ result = "none"
    /\ error = NoError
    /\ kwargs = NoKwargs
    /\ epc = "idle"
    /\ ep = NoEndpoint
    /\ request = NoEnvelope
    /\ sent = <<>>

\* no batch run in progress
BatchIdle ==
    /\ idFile = <<>>
    /\ mainpc = "idle"
    /\ maxBatchSize = 0
    /\ ids = <<>>
    /\ batches = <<>>
    /\ q = <<>>
    /\ unfinished_tasks = 0
    /\ sink = <<>>
    /\ closed = FALSE
    /\ nextThread = 1
    /\ pc = [w \in Workers |-> "idle"]
    /\ batch = [w \in Workers |-> 0]
    /\ rows = [w \in Workers |-> <<>>]
    /\ status = <<>>
    /\ gets = <<>>
    /\ calls = <<>>
    /\ metricsStatus = 0
    /\ deleteStatus = 0

\* start of main, for every ID file of at most MaxRows rows
BatchInit ==
    /\ idFile \in SeqsUpTo(FirstColumns, MaxRows)
    /\ mainpc = "metrics"
    /\ maxBatchSize = 0
    /\ ids = <<>>
    /\ batches = <<>>
    /\ q = <<>>
    /\ unfinished_tasks = 0
    /\ sink = <<>>
    /\ closed = FALSE
    /\ nextThread = 1
    /\ pc = [w \in Workers |-> "idle"]
    /\ batch = [w \in Workers |-> 0]
    /\ rows = [w \in Workers |-> <<>>]
    /\ status = <<>>
    /\ gets = <<>>
    /\ calls = <<>>
    /\ metricsStatus = 0
    /\ deleteStatus = 0

Init == BatchInit /\ InvokeIdle /\ PageIdle /\ ToolsIdle

Next ==
    \/ GetMetrics
    \/ ReadIdFile
    \/ BuildBatches
    \/ WriteHeader
    \/ StartThread
    \/ Join
    \/ Close
    \/ \E w \in Workers : Loop(w)
    \/ \E w \in Workers : Get(w)
    \/ \E w \in Workers : Call(w)
    \/ \E w \in Workers : WriteRow(w)

Spec == Init /\ [][Next]_vars

\* main at the partitioning step, for every identifier list of at most
\* MaxIds supporter ids and every batch size up to MaxChunk
PartitionInit ==
    /\ idFile \in SeqsUpTo({IdA, IdB}, MaxIds)
    /\ ids = ReadIds(idFile)
    /\ maxBatchSize \in 1..MaxChunk
    /\ mainpc = "partition"
    /\ batches = <<>>
    /\ q = <<>>
    /\ unfinished_tasks = 0
    /\ sink = <<>>
    /\ closed = FALSE
    /\ nextThread = 1
    /\ pc = [w \in Workers |-> "idle"]
    /\ batch = [w \in Workers |-> 0]
    /\ rows = [w \in Workers |-> <<>>]
    /\ status = <<>>
    /\ gets = <<>>
    /\ calls = <<>>
    /\ metricsStatus = 200
    /\ deleteStatus = 0
    /\ InvokeIdle
    /\ PageIdle
    /\ ToolsIdle

PartitionNext == BuildBatches

PartitionSpec == PartitionInit /\ [][PartitionNext]_vars

\* main after get_metrics returned maxBatchSize = WideBatchSize, for every
\* ID file of at most MaxWideRows supporter ids: runs of at most two batches
\* in which a batch holds several identifiers
WideInit ==
    /\ idFile \in SeqsUpTo({IdA, IdB}, MaxWideRows)
    /\ mainpc = "read"
    /\ maxBatchSize = WideBatchSize
    /\ ids = <<>>
    /\ batches = <<>>
    /\ q = <<>>
    /\ unfinished_tasks = 0
    /\ sink = <<>>
    /\ closed = FALSE
    /\ nextThread = 1
    /\ pc = [w \in Workers |-> "idle"]
    /\ batch = [w \in Workers |-> 0]
    /\ rows = [w \in Workers |-> <<>>]
    /\ status = <<>>
    /\ gets = <<>>
    /\ calls = <<>>
    /\ metricsStatus = 200
    /\ deleteStatus = 0
    /\ InvokeIdle
    /\ PageIdle
    /\ ToolsIdle

WideNext ==
    \/ ReadIdFile
    \/ BuildBatches
    \/ WriteHeader
    \/ StartThread
    \/ Join
    \/ Close
    \/ \E w \in Workers : Loop(w)
    \/ \E w \in Workers : Get(w)
    \/ \E w \in Workers : Call(w)
    \/ \E w \in Workers : WriteRow(w)

WideSpec == WideInit /\ [][WideNext]_vars

\* start of main with the `delete` command, for every ID file of at most
\* MaxRows rows and every status the service would answer a delete with
DeleteInit ==
    /\ idFile \in SeqsUpTo(FirstColumns, MaxRows)
    /\ mainpc = "metrics"
    /\ maxBatchSize = 0
    /\ ids = <<>>
    /\ batches = <<>>
    /\ q = <<>>
    /\ unfinished_tasks = 0
    /\ sink = <<>>
    /\ closed = FALSE
    /\ nextThread = 1
    /\ pc = [w \in Workers |-> "idle"]
    /\ batch = [w \in Workers |-> 0]
    /\ rows = [w \in Workers |-> <<>>]
    /\ status = <<>>
    /\ gets = <<>>
    /\ calls = <<>>
    /\ metricsStatus = 0
    /\ deleteStatus \in ServiceStatuses
    /\ InvokeIdle
    /\ PageIdle
    /\ ToolsIdle

DeleteNext ==
    \/ GetMetrics
    \/ ReadIdFile
    \/ BuildBatches
    \/ WriteHeader
    \/ StartThread
    \/ Join
    \/ Close
    \/ \E w \in Workers : Loop(w)
    \/ \E w \in Workers : Get(w)
    \/ \E w \in Workers : CallDelete(w)

DeleteSpec == DeleteInit /\ [][DeleteNext]_vars

\* listActivities at line 65 (count = 20, offset = 0), for every number of
\* activities the service may hold
ListInit ==
    /\ BatchIdle
    /\ InvokeIdle
    /\ ToolsIdle
    /\ script = "listActivities"
    /\ ppc = "types"
    /\ total \in 0..MaxTotal
    /\ pageSize = DefaultCount
    /\ offset = 0
    /\ count = DefaultCount
    /\ todo = 0
    /\ written = 0
    /\ typeIdx = 0
    /\ cursor = None
    /\ pages = <<>>

ListNext ==
    \/ ListActivityTypes
    \/ ListPage
    \/ ListRow

ListSpec == ListInit /\ [][ListNext]_vars

\* entry of the loop of scanForms, of stc_photo_release.py (first payload
\* type) and of see_members.run, for every number of records the service
\* may hold and, in see_members, every --count tried
ScanInit ==
    /\ BatchIdle
    /\ InvokeIdle
    /\ ToolsIdle
    /\ script \in {"scanForms", "photo_release", "see_members"}
    /\ ppc = "while"
    /\ total \in 0..MaxTotal
    /\ pageSize \in (IF script = "see_members" THEN ArgCounts
                     ELSE {DefaultCount})
    /\ offset = 0
    /\ count = pageSize
    /\ todo = 0
    /\ written = 0
    /\ typeIdx = IF script = "photo_release" THEN 1 ELSE 0
    /\ cursor = None
    /\ pages = <<>>

ScanNext ==
    \/ ScanFormsPage
    \/ PhotoReleasePage
    \/ PhotoReleaseNextType
    \/ SeeMembersPage

ScanSpec == ScanInit /\ [][ScanNext]_vars

\* entry of the loop of scanEmail: count = 1, no cursor in the request
CursorInit ==
    /\ BatchIdle
    /\ InvokeIdle
    /\ ToolsIdle
    /\ script = "scanEmail"
    /\ ppc = "while"
    /\ total = 0
    /\ pageSize = DefaultCount
    /\ offset = 0
    /\ count = 1
    /\ todo = 0
    /\ written = 0
    /\ typeIdx = 0
    /\ cursor = None
    /\ pages = <<>>

CursorNext == ScanEmailPost

CursorSpec == CursorInit /\ [][CursorNext]_vars

\* start of main against a service that leaves a field out of the records
\* of some identifiers
FaultyInit ==
    /\ BatchInit
    /\ InvokeIdle
    /\ PageIdle
    /\ ReadIdle
    /\ SearchIdle
    /\ UsageIdle
    /\ StatsIdle
    /\ broken \in SUBSET {IdA, IdB}

FaultyNext ==
    \/ GetMetrics
    \/ ReadIdFile
    \/ BuildBatches
    \/ WriteHeader
    \/ StartThread
    \/ Join
    \/ Close
    \/ \E w \in Workers : Loop(w)
    \/ \E w \in Workers : Get(w)
    \/ \E w \in Workers : CallFaulty(w)
    \/ \E w \in Workers : WriteRow(w)

FaultySpec == FaultyInit /\ [][FaultyNext]_vars

\* the search operation called on one batch of at most MaxChunk
\* identifiers, against a service that answers with one status
SearchInit ==
    /\ BatchIdle
    /\ InvokeIdle
    /\ PageIdle
    /\ ReadIdle
    /\ FaultIdle
    /\ UsageIdle
    /\ StatsIdle
    /\ searchIds \in SeqsUpTo({IdA, IdB}, MaxChunk) \ {<<>>}
    /\ searchStatus \in ServiceStatuses
    /\ searchSent = <<>>
    /\ searchOutcomes = <<>>

SearchNext == SearchOnce

SearchSpec == SearchInit /\ [][SearchNext]_vars

\* entry of the loop of getLastActionDate, for every form of at most
\* MaxActions actions and every batch size tried
UsageInit ==
    /\ BatchIdle
    /\ InvokeIdle
    /\ ReadIdle
    /\ FaultIdle
    /\ SearchIdle
    /\ StatsIdle
    /\ script = "getLastActionDate"
    /\ ppc = "while"
    /\ dates \in SeqsUpTo(ActionDates, MaxActions)
    /\ total = Len(dates)
    /\ pageSize \in BatchSizes
    /\ offset = 0
    /\ count = pageSize
    /\ todo = 0
    /\ written = 0
    /\ typeIdx = 0
    /\ cursor = None
    /\ pages = <<>>
    /\ lastActionDate = NoDate

UsageNext == LastActionPage

UsageSpec == UsageInit /\ [][UsageNext]_vars

\* main of get_single_blast.py after data = newStats(), before the first
\* recipient
StatsInit ==
    /\ BatchIdle
    /\ InvokeIdle
    /\ PageIdle
    /\ ReadIdle
    /\ FaultIdle
    /\ SearchIdle
    /\ UsageIdle
    /\ data = NewStats
    /\ tpc = "running"
    /\ processed = <<>>

StatsNext == OneRecipient

StatsSpec == StatsInit /\ [][StatsNext]_vars

\* entry of listActivityTypes, readTransaction and readActivity, for either
\* value of summary
ReadInit ==
    /\ BatchIdle
    /\ InvokeIdle
    /\ PageIdle
    /\ reader \in Readers
    /\ rpc = "start"
    /\ summary \in (IF reader = "listActivityTypes" THEN {FALSE}
                    ELSE BOOLEAN)
    /\ answer = NoAnswer
    /\ log = <<>>
    /\ FaultIdle
    /\ SearchIdle
    /\ UsageIdle
    /\ StatsIdle

ReadNext ==
    \/ ReadPost
    \/ ReadPayload

ReadSpec == ReadInit /\ [][ReadNext]_vars

\* entry of Invoker.invoke, for an endpoint of every method
InvokeInit ==
    /\ BatchIdle
    /\ method \in Methods
    /\ kwargs = [endpoint |-> Path, host |-> None, method |-> method,
                 token |-> Token]
    /\ epc = "constructed"
    /\ ep = NewEndpoint(kwargs)
    /\ ipc = "loop"
    /\ complete = FALSE
    /\ needNap = FALSE
    /\ response = NoResponse
    /\ responses = <<>>
    /\ requests = <<>>
    /\ naps = <<>>
    /\ result = "none"
    /\ error = NoError
    /\ request \in Envelopes
    /\ sent = <<>>
    /\ PageIdle
    /\ ToolsIdle

InvokeNext ==
    \/ InvokeSend
    \/ InvokeCheck
    \/ InvokeNap
    \/ InvokeReturn

InvokeSpec == InvokeInit /\ [][InvokeNext]_vars

\* a call Endpoint(**kwargs) for every choice of keyword arguments, followed
\* by Invoker(ep).invoke(request) when the construction succeeds
EndpointInit ==
    /\ BatchIdle
    /\ kwargs \in KwargsSet
    /\ epc = "init"
    /\ ep = NoEndpoint
    /\ method = None
    /\ ipc = "idle"
    /\ complete = FALSE
    /\ needNap = FALSE
    /\ response = NoResponse
    /\ responses = <<>>
    /\ requests = <<>>
    /\ naps = <<>>
    /\ result = "none"
    /\ error = NoError
    /\ request = NoEnvelope
    /\ sent = <<>>
    /\ PageIdle
    /\ ToolsIdle

EndpointNext ==
    \/ Construct
    \/ NewInvoker
    \/ InvokeSend
    \/ InvokeCheck
    \/ InvokeNap
    \/ InvokeReturn

EndpointSpec == EndpointInit /\ [][EndpointNext]_vars

\* ------------------------------------------------------------------------
\* Properties of the partitioning and of the batch run
\* ------------------------------------------------------------------------
Last(s) == s[Len(s)]

\* the batches in the order they were put on the queue; nothing has been
\* dequeued while main is at "open"
Enqueued == [k \in 1..Len(q) |-> batches[q[k]]]

\* C1: once main has built and enqueued the batches of an identifier list of
\* length N with batch size B, there are exactly ceil(N/B) batches on the
\* queue, each holds between 1 and B identifiers, and their concatenation in
\* enqueue order is the identifier list.
C1_PartitionCompleteness ==
    mainpc = "open" =>
        /\ Len(batches) = CeilDiv(Len(ids), maxBatchSize)
        /\ Len(q) = CeilDiv(Len(ids), maxBatchSize)
        /\ unfinished_tasks = CeilDiv(Len(ids), maxBatchSize)
        /\ \A k \in 1..Len(q) :
              Len(Enqueued[k]) >= 1 /\ Len(Enqueued[k]) <= maxBatchSize
        /\ Flatten(Enqueued) = ids

\* five identifiers with batch size 2 have been split into sizes 2, 2, 1
C1_Witness ==
    /\ mainpc = "open"
    /\ Len(ids) = 5
    /\ maxBatchSize = 2
    /\ [k \in 1..Len(q) |-> Len(Enqueued[k])] = <<2, 2, 1>>

\* every search so far was answered with status 200
AllOk == \A b \in 1..Len(status) : status[b] \in {0, 200}

\* all workers were started, the queue is drained and no worker holds a
\* batch: each worker has returned or is parked in q.get()
Drained ==
    /\ nextThread > NumWorkers
    /\ q = <<>>
    /\ \A w \in Workers : pc[w] \in {"done", "get", "exited", "raised"}

\* the identifiers of the result rows of the sink (the header left out)
SinkIds == [k \in 1..(Len(sink) - 1) |-> sink[k + 1][1]]

C3_RunCompletion ==
    (/\ mainpc = "join"
     /\ ids # <<>>
     /\ AllOk
     /\ Drained) => unfinished_tasks = 0

\* C4: every identifier position belongs to exactly one batch, a batch
\* leaves the queue at most once and is passed to payload_getter at most
\* once, no two workers hold the same batch, and in a drained failure-free
\* run every batch was dequeued exactly once and submitted exactly once.
C4_ExactlyOnce ==
    mainpc \in {"open", "start", "join", "close", "done"} =>
        /\ Flatten(batches) = ids
        /\ \A b \in 1..Len(batches) :
              /\ gets[b] <= 1
              /\ calls[b] <= gets[b]
              /\ gets[b] = (IF \E k \in 1..Len(q) : q[k] = b THEN 0 ELSE 1)
              /\ Cardinality({w \in Workers : batch[w] = b
                                 /\ pc[w] \in {"call", "write"}}) <= 1
        /\ (Drained /\ AllOk) =>
              \A b \in 1..Len(batches) : gets[b] = 1 /\ calls[b] = 1

\* two workers are in payload_getter at the same time, on different batches
C4_Witness ==
    \E w1, w2 \in Workers :
        /\ w1 # w2
        /\ pc[w1] = "call"
        /\ pc[w2] = "call"
        /\ batch[w1] # batch[w2]
        /\ gets[batch[w1]] = 1
        /\ gets[batch[w2]] = 1

\* C5: no worker is ever parked in q.get() on an empty queue; nothing is
\* enqueued after the workers start, so such a worker stays blocked for ever
\* and never reaches its 'done' message.
C5_NonBlockingDequeue ==
    \A w \in Workers : pc[w] = "get" => q # <<>>

\* C10: a 429 answer to a batch's search does not end the worker that sent
\* it: while 429 is the latest answer for a batch, a worker still holds that
\* batch and is in the operation, about to send the request again.
C10_RateLimitAbsorbed ==
    \A b \in 1..Len(status) :
        status[b] = 429 => \E w \in Workers : batch[w] = b /\ pc[w] = "call"

\* ------------------------------------------------------------------------
\* Properties of Invoker.invoke
\* ------------------------------------------------------------------------
\* a 429 that is an ordinary rate-limit answer
OrdinaryRateLimit(r) ==
    r.status_code = 429 /\ ~Contains(r.text, BatchSizeMarker)

\* a 200 whose body carries the call-rate warning
Marked200(r) == r.status_code = 200 /\ Contains(r.text, CallRateMarker)

Unmarked200(r) == r.status_code = 200 /\ ~Contains(r.text, CallRateMarker)

\* the backend has so far answered with K ordinary 429s, then an unmarked 200
BackoffHistory(K) ==
    /\ Len(responses) = K + 1
    /\ \A k \in 1..K : OrdinaryRateLimit(responses[k])
    /\ Unmarked200(responses[K + 1])

\* C6: when the backend answers with ordinary 429s K times and then with an
\* unmarked 200, invoke does not raise, sleeps 30 seconds after each of the
\* K rate-limited attempts and not after the successful one, and returns
\* the payload of the last response after exactly K+1 requests and K sleeps.
C6_Backoff ==
    /\ \A K \in 0..MaxRequests :
          BackoffHistory(K) =>
              /\ ipc \in {"check", "loop", "returned"}
              /\ Len(requests) = K + 1
              /\ Len(naps) = K
              /\ ipc = "returned" => result = responses[K + 1].payload
    /\ \A k \in 1..Len(naps) : naps[k] = NapSeconds
    /\ (ipc = "check" /\ \A k \in 1..Len(responses) :
                             OrdinaryRateLimit(responses[k]))
          => Len(naps) = Len(requests) - 1

\* invoke has returned after two rate-limited attempts and a third, good one
C6_Witness ==
    /\ ipc = "returned"
    /\ BackoffHistory(2)
    /\ naps = <<NapSeconds, NapSeconds>>

HardFailure(r) == r.status_code \notin {200, 429}

\* C7: once a response with a status other than 200 and 429 has been
\* examined, invoke has raised: no request and no sleep follows that
\* response, and nothing is returned; when it is the first response, invoke
\* has sent exactly one request and has not slept at all.
C7_NonRetryOnHardFailure ==
    (responses # <<>> /\ HardFailure(Last(responses)) /\ ipc # "check") =>
        /\ ipc = "raised"
        /\ error.type = "Exception"
        /\ result = "none"
        /\ Len(requests) = Len(responses)
        /\ Len(naps) = Len(responses) - 1
        /\ Len(responses) = 1 => (Len(requests) = 1 /\ naps = <<>>)

\* invoke raised on a 500 that was its first response
C7_Witness ==
    /\ ipc = "raised"
    /\ Len(responses) = 1
    /\ responses[1].status_code = 500
    /\ Len(requests) = 1
    /\ naps = <<>>

\* C8 as stated: invoke never raises in reaction to a response with status
\* 429, whatever its body.
C8_NeverRaisesOn429 ==
    (ipc = "raised" /\ responses # <<>>) => Last(responses).status_code # 429

\* C8 amended: a 429 whose body does not contain "Requested batch size
\* exceeds the allowed size" never makes invoke raise: invoke sleeps 30
\* seconds and goes on to resend; a 429 whose body contains that phrase
\* makes invoke raise an Exception without sleeping.
C8_RateLimitNotSurfaced ==
    (responses # <<>> /\ Last(responses).status_code = 429 /\ ipc # "check") =>
        IF Contains(Last(responses).text, BatchSizeMarker)
        THEN /\ ipc = "raised"
             /\ error.type = "Exception"
             /\ Len(naps) = Len(responses) - 1
        ELSE /\ ipc \in {"nap", "loop"}
             /\ ~complete
             /\ error = NoError
             /\ ipc = "loop" => (Len(naps) = Len(responses)
                                 /\ Last(naps) = NapSeconds)

\* invoke has slept after an ordinary 429 whose body carries the call-rate
\* text and has sent the request again
C8_Witness ==
    /\ Len(responses) = 2
    /\ OrdinaryRateLimit(responses[1])
    /\ Contains(responses[1].text, CallRateMarker)
    /\ Len(requests) = 2
    /\ Len(naps) = 1

\* C9: a 200 whose body carries the call-rate marker makes invoke sleep and
\* go on to resend, exactly as an ordinary 429 does; and whenever invoke has
\* returned, the value returned is the payload of the most recent response,
\* whose status is 200 and whose body carries no call-rate marker.
C9_Marked200IsRateLimit ==
    /\ (responses # <<>> /\ Marked200(Last(responses)) /\ ipc # "check") =>
          /\ ipc \in {"nap", "loop"}
          /\ ~complete
          /\ error = NoError
          /\ result = "none"
          /\ ipc = "loop" => (Len(naps) = Len(responses)
                              /\ Last(naps) = NapSeconds)
    /\ ipc = "returned" =>
          /\ response = Last(responses)
          /\ result = response.payload
          /\ response.status_code = 200
          /\ ~Contains(response.text, CallRateMarker)

\* invoke returned the payload of the second response after a marked 200
\* that carried another payload
C9_Witness ==
    /\ ipc = "returned"
    /\ Len(responses) = 2
    /\ Marked200(responses[1])
    /\ responses[1].payload # result
    /\ Len(naps) = 1

\* ------------------------------------------------------------------------
\* Failures in a batch run
\* ------------------------------------------------------------------------
FailedBatches == {b \in 1..Len(status) : status[b] \notin {0, 200}}

ExitedWorkers == {w \in Workers : pc[w] = "exited"}

\* all workers were started and none of them can take another step
Quiescent ==
    /\ nextThread > NumWorkers
    /\ \A w \in Workers :
          \/ pc[w] \in {"done", "exited", "raised"}
          \/ pc[w] = "get" /\ q = <<>>

\* the identifiers of the batches whose search was answered with 200
RECURSIVE OkIdsFrom(_)
OkIdsFrom(b) ==
    IF b > Len(batches) THEN <<>>
    ELSE (IF status[b] = 200 THEN batches[b] ELSE <<>>) \o OkIdsFrom(b + 1)

C12_FatalErrorEndsRun ==
    (Quiescent /\ FailedBatches # {}) => ExitCode = 1

\* C13: the sink is append-only: every step of main and of every worker,
\* a failing search included, leaves the rows already written (header
\* included) in place and in order.
C13_AppendOnly ==
    [][/\ Len(sink') >= Len(sink)
       /\ SubSeq(sink', 1, Len(sink)) = sink]_vars

\* a search failed with 500 after a result row had been written, and the
\* header and that row are still in the sink
C13_Witness ==
    /\ Len(batches) = 2
    /\ status = <<200, 500>>
    /\ Len(sink) = 2
    /\ sink[1] = HeaderRow
    /\ sink[2][1] = batches[1][1]

\* worker w has written some but not all rows of its writerows call
InsideWrite(w) ==
    /\ pc[w] = "write"
    /\ rows[w] # <<>>
    /\ Len(rows[w]) < Len(batches[batch[w]])

\* C14: at no time are two workers inside a sink write.
C14_SerializedWrites ==
    Cardinality({w \in Workers : InsideWrite(w)}) <= 1

\* ------------------------------------------------------------------------
\* Order of enqueue and dequeue
\* ------------------------------------------------------------------------
SomeWorkerStarted == \E w \in Workers : pc[w] # "idle"

\* C19 as stated: at the first emptiness check of any worker the queue
\* holds every batch. The queue never grows once workers run, so as long as
\* main is still starting threads and some worker has its first check ahead
\* of it, the queue must still hold every batch.
C19_EveryFirstCheckSeesAll ==
    (mainpc = "start" /\ \E w \in Workers : pc[w] = "idle") =>
        Len(q) = Len(batches)

\* C19 amended: all batches are on the queue before the first worker is
\* started (when main reaches the thread loop the queue holds every batch of
\* the partition, in order); a worker started later may find batches already
\* taken; and once a worker has started nothing is enqueued any more: no
\* step makes the queue longer or adds an unfinished task.
C19_UpfrontEnqueue ==
    /\ [](SomeWorkerStarted =>
             /\ mainpc \in {"start", "join", "close", "done"}
             /\ batches = Partition(ids, maxBatchSize)
             /\ unfinished_tasks = Len(batches))
    /\ []((mainpc = "start" /\ nextThread = 1) =>
             q = [k \in 1..Len(batches) |-> k])
    /\ [][SomeWorkerStarted =>
             /\ Len(q') <= Len(q)
             /\ unfinished_tasks' = unfinished_tasks
             /\ batches' = batches]_vars

\* the third worker has been started and has its check ahead of it after
\* the first two workers have emptied a queue of two batches
C19_Witness ==
    /\ Len(batches) = 2
    /\ q = <<>>
    /\ nextThread = 4
    /\ pc[3] = "loop"
    /\ pc[1] = "call"
    /\ pc[2] = "call"

\* C20: batches leave the queue in enqueue order: at any time the batches
\* dequeued so far are exactly the first d batches of the partition and the
\* queue holds the others in order, so the k-th dequeue returned the k-th
\* batch.
C20_FifoDispatch ==
    mainpc \in {"open", "start", "join", "close", "done"} =>
        LET d == Len(batches) - Len(q)
        IN  /\ batches = Partition(ids, maxBatchSize)
            /\ q = [k \in 1..Len(q) |-> d + k]
            /\ \A b \in 1..Len(batches) :
                  gets[b] = (IF b <= d THEN 1 ELSE 0)
            /\ \A w \in Workers : batch[w] <= d

\* the first batch has been taken and answered, the second is still queued
C20_Witness ==
    /\ Len(batches) = 2
    /\ q = <<2>>
    /\ gets = <<1, 0>>
    /\ status[1] = 200
    /\ \E w \in Workers : pc[w] = "write" /\ batch[w] = 1

\* ------------------------------------------------------------------------
\* Endpoint construction and method dispatch
\* ------------------------------------------------------------------------
RequiredMissing ==
    kwargs.endpoint = None \/ kwargs.method = None \/ kwargs.token = None

FirstMissing ==
    IF kwargs.endpoint = None THEN {"endpoint"}
    ELSE IF kwargs.method = None THEN {"method"}
    ELSE {"token"}

\* C15 as stated: an Endpoint(...) call with any one of host, endpoint,
\* method or token missing fails at construction and produces no Endpoint.
C15_AnyMissingFails ==
    (epc # "init" /\ \E f \in DOMAIN kwargs : kwargs[f] = None) =>
        /\ epc = "raised"
        /\ ep = NoEndpoint

\* C15 (amended): construction fails with a NameError, naming the first
\* missing keyword and producing no Endpoint, exactly when endpoint, method
\* or token is missing; a missing host does not fail, it becomes
\* "api.salsalabs.org".
C15_FailFast ==
    epc # "init" =>
        /\ (epc = "raised") <=> RequiredMissing
        /\ epc = "raised" =>
              /\ ep = NoEndpoint
              /\ error.type = "NameError"
              /\ error.message.name = FirstMissing
              /\ ipc = "idle"
              /\ requests = <<>>
        /\ (epc = "constructed" /\ kwargs.host = None) =>
              /\ ep.host = DefaultHost
              /\ ep.url = <<"https", DefaultHost, kwargs.endpoint>>

C15_Witness ==
    /\ epc = "raised"
    /\ kwargs.endpoint # None
    /\ kwargs.method # None
    /\ kwargs.token = None
    /\ kwargs.host # None

\* C16 as stated: every constructed Endpoint has a non-empty path, a
\* non-empty token and a method that is one of GET, POST, PUT, DELETE.
C16_DescriptorInvariant ==
    epc = "constructed" =>
        /\ ep.endpoint # ""
        /\ ep.token # ""
        /\ ep.method \in {"GET", "POST", "PUT", "DELETE"}

\* C16 (amended): every constructed Endpoint has endpoint, method and token
\* that are not None (they may be empty, the method may be any string), the
\* given host or the default one, the https URL of that host and endpoint,
\* and a session whose authToken header is the token; invoke sends requests
\* only for an Endpoint whose method is POST, GET, PUT or DEL.
C16_ConstructedDescriptor ==
    epc = "constructed" =>
        /\ ep.endpoint = kwargs.endpoint /\ ep.endpoint # None
        /\ ep.method = kwargs.method /\ ep.method # None
        /\ ep.token = kwargs.token /\ ep.token # None
        /\ ep.host # None
        /\ ep.host = IF kwargs.host = None THEN DefaultHost ELSE kwargs.host
        /\ ep.url = <<"https", ep.host, ep.endpoint>>
        /\ ep.headers.authToken = ep.token
        /\ requests # <<>> => ep.method \in {"POST", "GET", "PUT", "DEL"}

C16_Witness ==
    /\ epc = "constructed"
    /\ ep.endpoint = ""
    /\ ep.token = ""
    /\ ep.method = "DELETE"
    /\ ep.host = DefaultHost
    /\ ipc = "raised"

\* the dispatch the claim describes
ClaimedVerb == [GET |-> "get", POST |-> "post", PUT |-> "put",
                DELETE |-> "delete"]

MethodError == ipc = "raised" /\ requests = <<>>

\* C17: for each of GET, POST, PUT and DELETE every attempt of invoke sends
\* one request of that verb, and for any other method invoke fails before
\* any request is sent.
C17_MethodDispatch ==
    /\ method \in DOMAIN ClaimedVerb =>
          /\ ~MethodError
          /\ \A i \in 1..Len(requests) : requests[i] = ClaimedVerb[method]
    /\ method \notin DOMAIN ClaimedVerb => requests = <<>>

RECURSIVE IsSubsequence(_, _)
IsSubsequence(s, t) ==
    IF s = <<>> THEN TRUE
    ELSE IF t = <<>> THEN FALSE
    ELSE IF Head(s) = Head(t) THEN IsSubsequence(Tail(s), Tail(t))
    ELSE IsSubsequence(s, Tail(t))

\* the result rows are not in the order of the input identifiers
SinkOutOfOrder == Len(sink) > 1 /\ ~IsSubsequence(SinkIds, ids)

\* C21: the sink can hold the rows of a later batch before those of an
\* earlier batch although batches leave the queue in input order; it takes
\* two started workers: while a single worker has been started the rows are
\* in input order.
C21_SinkOrderNeedsTwoWorkers ==
    SinkOutOfOrder =>
        /\ nextThread > 2
        /\ \E a, b \in 1..Len(batches) :
              a < b /\ gets[a] = 1 /\ gets[b] = 1 /\ status[b] = 200

\* two batches <<IdA>>, <<IdB>> dequeued in that order, rows written IdB
\* first
C21_Witness ==
    /\ ids = <<IdA, IdB>>
    /\ batches = <<<<IdA>>, <<IdB>>>>
    /\ SinkIds = <<IdB, IdA>>
    /\ gets = <<1, 1>>

\* the rows written so far for batch b: none before its answer, all of them
\* once no worker is writing it
WrittenRows(b) ==
    LET full == ExtractRows(SearchPayload(batches[b]))
        writers == {w \in Workers : batch[w] = b /\ pc[w] = "write"}
    IN  IF status[b] # 200 THEN <<>>
        ELSE IF writers = {} THEN full
        ELSE LET w == CHOOSE w \in writers : TRUE
             IN  SubSeq(full, 1, Len(full) - Len(rows[w]))

\* s is an interleaving of the sequences ss[1], ss[2], ...: every element of
\* s comes from one of them, each of them is used up, each in its own order
RECURSIVE IsInterleaving(_, _)
IsInterleaving(s, ss) ==
    IF s = <<>> THEN \A k \in 1..Len(ss) : ss[k] = <<>>
    ELSE \E k \in 1..Len(ss) :
            /\ ss[k] # <<>>
            /\ Head(ss[k]) = Head(s)
            /\ IsInterleaving(Tail(s), [ss EXCEPT ![k] = Tail(@)])

\* C22: the rows of the sink after the header are an interleaving of the
\* rows written for each batch, and the rows written for a batch are the
\* records of its response payload from the first on, one row per record, in
\* the order of the payload.
C22_WithinBatchOrder ==
    mainpc \in {"start", "join", "close", "done"} =>
        /\ Len(sink) >= 1
        /\ Head(sink) = HeaderRow
        /\ IsInterleaving(Tail(sink),
                          [b \in 1..Len(batches) |-> WrittenRows(b)])
        /\ \A b \in 1..Len(batches) :
              (status[b] = 200 /\ \A w \in Workers : batch[w] # b) =>
                  IsSubsequence(ExtractRows(SearchPayload(batches[b])),
                                Tail(sink))

\* two batches of two records each, written by two workers in turn
C22_Witness ==
    /\ batches = <<<<IdA, IdB>>, <<IdB, IdA>>>>
    /\ SinkIds = <<IdA, IdB, IdB, IdA>>
    /\ sink[2] = <<IdA, "FOUND">>
    /\ sink[3] = <<IdB, "NOT_FOUND">>
    /\ status = <<200, 200>>
    /\ \A w \in Workers : batch[w] = 0

\* the supporter ids of the ID file
FileIds == {x \in Range1(idFile) : Len(x) = IdLength}

\* an identifier that stands m times in the ID file stands m times in
\* the identifier list and m times in the batches; no batch is submitted
\* twice, and once every batch has been processed with status 200 the
\* identifier has been submitted m times and has m rows in the sink.
NoDeduplication ==
    /\ mainpc \in {"partition", "open", "start", "join", "close", "done"} =>
          \A x \in FileIds : Count(ids, x) = Count(idFile, x)
    /\ mainpc \in {"open", "start", "join", "close", "done"} =>
          LET placed == Flatten(batches)
          IN  /\ \A x \in FileIds : Count(placed, x) = Count(idFile, x)
              /\ \A b \in 1..Len(batches) : calls[b] <= 1
              /\ (Drained /\ AllOk) =>
                    /\ \A b \in 1..Len(batches) : calls[b] = 1
                    /\ \A x \in FileIds : Count(SinkIds, x) = Count(idFile, x)

\* C23: throughout a run NoDeduplication holds: an identifier that stands m
\* times in the ID file is m times in the batches, is submitted m times and
\* has m rows in the sink.
C23_NoDeduplication == []NoDeduplication

\* the same identifier twice, in two batches, two rows in the sink
C23_Witness ==
    /\ idFile = <<IdA, IdA>>
    /\ batches = <<<<IdA>>, <<IdA>>>>
    /\ calls = <<1, 1>>
    /\ Drained
    /\ SinkIds = <<IdA, IdA>>

\* ------------------------------------------------------------------------
\* Per-request state of invoke
\* ------------------------------------------------------------------------
\* C27: every attempt of invoke, retries included, is sent to the endpoint's
\* URL with the endpoint's token in the authToken header and with the
\* caller's envelope, so all attempts are equal; a step of invoke leaves the
\* endpoint (url, method, token, session headers) and the envelope as they
\* were.
C27_ImmutableRequestState ==
    /\ [](/\ Len(sent) = Len(requests)
          /\ \A i \in 1..Len(sent) :
                /\ sent[i].url = ep.url
                /\ sent[i].headers.authToken = ep.token
                /\ sent[i].headers = ep.headers
                /\ sent[i].envelope = request
                /\ sent[i] = sent[1])
    /\ [][(ipc \in {"loop", "check", "nap"}) =>
             (/\ ep' = ep
              /\ ep'.headers.authToken = ep'.token
              /\ request' = request
              /\ method' = ep.method)]_vars

\* three attempts separated by two naps carried the same request
C27_Witness ==
    /\ Len(sent) = 3
    /\ naps = <<NapSeconds, NapSeconds>>
    /\ sent[3] = sent[1]
    /\ sent[1].url = <<"https", DefaultHost, Path>>
    /\ sent[1].headers.authToken = Token
    /\ sent[1].envelope = "envelope2"

\* ------------------------------------------------------------------------
\* get_metrics
\* ------------------------------------------------------------------------
\* C30: get_metrics returns only after a 200 answer; after any other answer
\* the program has ended (exit code 1) with nothing read, partitioned,
\* enqueued, written or started; so wherever main is past get_metrics, and
\* wherever batches exist, maxBatchSize came from a 200 metrics answer.
C30_MetricsErrorsFatal ==
    /\ mainpc = "metrics" => metricsStatus = 0
    /\ mainpc \in {"exited", "raised"} =>
          /\ metricsStatus \in ServiceStatuses \ {200}
          /\ ExitCode = 1
          /\ maxBatchSize = 0
          /\ ids = <<>> /\ batches = <<>> /\ q = <<>> /\ sink = <<>>
          /\ nextThread = 1
    /\ mainpc \notin {"metrics", "exited", "raised"} =>
          /\ metricsStatus = 200
          /\ maxBatchSize >= 1
    /\ batches # <<>> =>
          /\ metricsStatus = 200
          /\ \A b \in 1..Len(batches) : Len(batches[b]) <= maxBatchSize

\* a 429 metrics answer has ended the program
C30_Witness ==
    /\ metricsStatus = 429
    /\ mainpc = "raised"
    /\ idFile # <<>>
    /\ ExitCode = 1

\* ------------------------------------------------------------------------
\* The delete command
\* ------------------------------------------------------------------------
\* every started worker has ended
WorkersEnded ==
    /\ nextThread > NumWorkers
    /\ \A w \in Workers : pc[w] \in {"done", "exited", "raised"}

\* C28: with a service that answers deletes with 200, once the workers of a
\* delete run have ended the sink holds one row for every supporterId of
\* the ID file.
C28_DeleteWritesRows ==
    (deleteStatus = 200 /\ WorkersEnded) =>
        /\ Len(SinkIds) = Len(ids)
        /\ Range1(SinkIds) = Range1(ids)

RECURSIVE Returned(_)
Returned(k) == IF k = 0 THEN 0 ELSE pages[k].returned + Returned(k - 1)

\* the record positions answered by page k
Positions(k) == {pos \in 0..(total - 1) :
                    /\ pos >= pages[k].offset
                    /\ pos < pages[k].offset + pages[k].returned}

\* C24: in listActivities the offset of every request is the sum of the
\* counts returned by the pages before it, no record position is answered
\* twice, and when the loop has stopped every position from 0 to total-1
\* has been answered and written.
C24_OffsetAdvancesByCount ==
    script = "listActivities" =>
        /\ \A k \in 1..Len(pages) : pages[k].offset = Returned(k - 1)
        /\ \A j, k \in 1..Len(pages) :
              j # k => Positions(j) \cap Positions(k) = {}
        /\ ppc = "done" =>
              /\ UNION {Positions(k) : k \in 1..Len(pages)} = 0..(total - 1)
              /\ written = total

OffsetLoops == {"scanForms", "photo_release", "see_members"}

\* the loop has been left by its while test
LoopLeft == ppc = "done" \/ (ppc = "while" /\ ~Continues(count, pageSize))

\* a further page is requested only after a page with as many records as
\* the page size, every request asks for the page size, and the loop is
\* left by its test only after a page with another number of records
FurtherPageIffFull ==
    /\ \A k \in 1..Len(pages) :
          /\ pages[k].count = pageSize
          /\ k < Len(pages) => pages[k].returned = pageSize
    /\ LoopLeft => (pages # <<>> /\ pages[Len(pages)].returned # pageSize)
    /\ (ppc = "while" /\ pages # <<>> /\ Len(pages) < MaxPages
        /\ pages[Len(pages)].returned = pageSize) => ~LoopLeft

\* the offset of page k is the sum of the counts returned before it
OffsetIsRunningSum ==
    \A k \in 1..Len(pages) : pages[k].offset = Returned(k - 1)

C26_CursorPagination ==
    script = "scanEmail" =>
        /\ \A k \in 2..Len(pages) :
              pages[k - 1].received # None =>
                  pages[k].cursor = pages[k - 1].received
        /\ \A k \in 1..(Len(pages) - 1) :
              pages[k].received # None /\ pages[k].returned > 0
        /\ (\A j, k \in 1..Len(pages) :
                (j # k /\ pages[j].received # None)
                    => pages[j].received # pages[k].received)
            => \A j, k \in 1..Len(pages) :
                  j # k => pages[j].cursor # pages[k].cursor

\* C31: after a 200 answer with a top-level `errors` field the function
\* ends with a failure: it never returns normally, and nothing is logged
\* after the "Read errors:" line.
C31_ServiceErrorsFatal ==
    (reader \in Readers /\ answer.status_code = 200 /\ answer.errors) =>
        /\ rpc # "returned"
        /\ log # <<>> /\ Last(log) = ReadErrorsLine

\* C32: a malformed record does not cost the batch or the worker: once a
\* worker is through with a batch that the service answered with 200, every
\* identifier of the batch whose record was whole has a row in the sink,
\* every identifier whose record was malformed has a row reporting it, and
\* the worker has not been ended by the record.
C32_RowErrorsIsolated ==
    /\ \A b \in 1..Len(status) :
          (status[b] = 200 /\ calls[b] > 0 /\ \A w \in Workers : batch[w] # b)
              => \A k \in 1..Len(batches[b]) :
                    batches[b][k] \in Range1(SinkIds)
    /\ (\A b \in 1..Len(status) : status[b] \in {0, 200})
          => \A w \in Workers : pc[w] # "raised" \/ closed

InFlight == {w \in Workers : pc[w] = "call"}

\* the workers that have been started
Started == {w \in Workers : pc[w] # "idle"}

\* C34: main starts exactly five workers whatever the number of batches
\* (the started workers are the first nextThread - 1, and all five once main
\* has left the start loop); the calls in flight are never more than five
\* and never more than the batches; a worker that finds the queue empty
\* leaves for good in that step, and the step calls nothing.
C34_BoundedConcurrency ==
    /\ [](/\ Started = 1..(nextThread - 1)
          /\ nextThread <= NumWorkers + 1
          /\ mainpc \in {"join", "close", "done"} => Started = Workers
          /\ Cardinality(InFlight) <= NumWorkers
          /\ Cardinality(InFlight) <= Len(batches))
    /\ [][\A w \in Workers :
            (pc[w] = "loop" /\ q = <<>> /\ pc'[w] # "loop")
                => (pc'[w] = "done" /\ calls' = calls /\ gets' = gets)]_vars

\* all five workers were started for a single batch: one is inside the
\* call, another found the queue empty and is done
C34_Witness ==
    /\ Len(batches) = 1
    /\ Started = Workers
    /\ Cardinality(InFlight) = 1
    /\ \E w \in Workers : pc[w] = "done"

\* the first columns of the ID file that are 36 characters long, in file
\* order
Retained == SelectSeq(idFile, LAMBDA x : Len(x) = IdLength)

\* the identifiers of the batches that were submitted to the service
Submitted ==
    UNION {Range1(batches[b]) : b \in {c \in 1..Len(batches) : calls[c] > 0}}

\* C35: the identifier list is the 36-character first columns of the ID
\* file in file order; a first column of another length is in no batch, in
\* no submitted batch, in no row a worker holds and in no row of the sink.
C35_IdentifierFilter ==
    [](/\ mainpc \in {"partition", "open", "start", "join", "close", "done"}
             => ids = Retained
       /\ Flatten(batches) \in {<<>>, Retained}
       /\ \A x \in Range1(idFile) :
             Len(x) # IdLength =>
                /\ x \notin Range1(Flatten(batches))
                /\ x \notin Submitted
                /\ x \notin Range1(SinkIds)
                /\ \A w \in Workers :
                      \A k \in 1..Len(rows[w]) : rows[w][k][1] # x)

\* a file with a header-like first row and one identifier has been
\* processed: one batch submitted, one row after the header
C35_Witness ==
    /\ idFile = <<Junk, IdA>>
    /\ Drained
    /\ Submitted = {IdA}
    /\ SinkIds = <<IdA>>

\* C36: the header row is in the sink exactly once from the moment main
\* goes on to start the workers, it is the first row, and every other row is
\* a result row; no worker runs, and no result row exists, before it is
\* written.
C36_HeaderFirst ==
    [](/\ Count(sink, HeaderRow) <= 1
       /\ sink # <<>> => sink[1] = HeaderRow
       /\ mainpc \in {"start", "join", "close", "done"} =>
             Count(sink, HeaderRow) = 1
       /\ Started # {} => (sink # <<>> /\ sink[1] = HeaderRow)
       /\ \A k \in 2..Len(sink) :
             /\ sink[k] # HeaderRow
             /\ Len(sink[k][1]) = IdLength)

\* two workers have written a row each below the header
C36_Witness ==
    /\ Len(sink) = 3
    /\ sink[1] = HeaderRow
    /\ Len(batches) = 2
    /\ \E v, w \in Workers : v # w /\ pc[v] = "done" /\ pc[w] = "done"

\* the batches whose call failed fatally, and those whose call returned
LostBatches == {b \in 1..Len(status) : status[b] \notin {0, 200}}
ReturnedBatches == {b \in 1..Len(status) : status[b] = 200}

\* a failed batch is off the queue, was dequeued once and called once, and
\* no worker holds it
LostBatchGone ==
    \A b \in LostBatches :
        /\ \A k \in 1..Len(q) : q[k] # b
        /\ gets[b] = 1
        /\ calls[b] = 1
        /\ \A w \in Workers : batch[w] # b

\* the identifiers of the sink are identifiers of returned batches
SinkFromReturned ==
    Range1(SinkIds) \subseteq UNION {Range1(batches[b]) : b \in ReturnedBatches}

\* C37 as stated: a failed batch is gone for good, none of its identifiers
\* is in the sink, and the identifiers of the sink are identifiers of
\* batches whose call returned.
C37_LostBatchIdsAbsent ==
    /\ LostBatchGone
    /\ \A b \in LostBatches : Range1(batches[b]) \cap Range1(SinkIds) = {}
    /\ SinkFromReturned

\* C37, amended: a failed batch is gone for good, and it contributes no row:
\* each identifier has at most as many sink rows as returned batches hold
\* it (so an identifier of a failed batch is in the sink only through
\* another, returned, batch that holds it too); the identifiers of the sink
\* are identifiers of batches whose call returned.
C37_LostBatchRowsAbsent ==
    [](/\ LostBatchGone
       /\ SinkFromReturned
       /\ \A x \in Range1(ids) :
             Count(SinkIds, x)
                <= Count(Flatten([k \in 1..Len(batches) |->
                                    IF k \in ReturnedBatches THEN batches[k]
                                    ELSE <<>>]), x))

\* of two batches with different identifiers the first failed and the
\* second returned and was written: the sink holds the second's row alone
C37_Witness ==
    /\ Drained
    /\ batches = <<<<IdA>>, <<IdB>>>>
    /\ status[1] = 500
    /\ status[2] = 200
    /\ SinkIds = <<IdB>>

\* the actions returned by the first k pages of the loop
RECURSIVE ReturnedUpTo(_)
ReturnedUpTo(k) == IF k = 0 THEN 0 ELSE ReturnedUpTo(k - 1) + pages[k].returned

\* the greatest date among the first n actions of the form, "" for none
LatestAmong(n) == IF n = 0 THEN NoDate ELSE MaxOf(SubSeq(dates, 1, n))

Having(f, v) == {k \in 1..Len(processed) : processed[k][f] = v}

\* C39: oneRecipient raises nothing; data['recipients'] is the number of
\* recipients processed; data['status'][s] and data['splitName'][p] are
\* stats objects whose recipients count is the number of processed
\* recipients with status s, with split name p.
C39_Tabulation ==
    /\ tpc # "raised"
    /\ data.recipients = Len(processed)
    /\ \A s \in RecipientStatuses :
          Having("status", s) # {} =>
             /\ s \in DOMAIN data.status
             /\ IsStats(data.status[s])
             /\ data.status[s].recipients = Cardinality(Having("status", s))
    /\ \A p \in SplitNames :
          Having("splitName", p) # {} =>
             /\ p \in DOMAIN data.splitName
             /\ IsStats(data.splitName[p])
             /\ data.splitName[p].recipients
                   = Cardinality(Having("splitName", p))

\* the step of see_members.run that reads an answer without `supporters`,
\* warns and exits with status 1 (the answer is in the history, unlike the
\* answer of a failed request)
NoMembersExit ==
    /\ script = "see_members"
    /\ ppc = "while"
    /\ ppc' = "exited"
    /\ pages' # pages

\* C40: see_members.run takes the failure exit with the 'segment does not
\* have any members' warning only when no member has been displayed: never
\* after a page of members was shown.
C40_FailureOnlyWhenEmpty ==
    [][NoMembersExit => Returned(Len(pages)) = 0]_vars

====
